---------------------------- MODULE Spec2Model ----------------------------
(***************************************************************************)
(* Model of the content-acquisition pipeline of smart_competitor_finder:   *)
(*   - ScrapingCache            (backend/core/scraping_cache.py)           *)
(*   - HybridScraperV2          (backend/core/hybrid_scraper_v2.py)        *)
(*   - stream_analysis_progress (backend/api/analyze_stream.py)            *)
(* Strings are TLA+ strings; substring tests and lower-casing are computed *)
(* character by character, as the Python code computes them.               *)
(***************************************************************************)
EXTENDS Integers, Sequences, FiniteSets, TLC

VARIABLES
    \* ---- ScrapingCache ----
    cache,          \* OrderedDict: sequence of [key, data, ts], oldest first
    now,            \* time.time(), in model time units
    useOrder,       \* history: cached keys ordered by their latest use
    overwritten,    \* history: some set replaced the value of a present key
    cacheOp,        \* history: the last cache operation and what it returned
                    \* (seq alternates with every operation)
    \* ---- HybridScraperV2.scrape_intelligent ----
    cache_enabled,  \* scraping_cache is not None
    is_initialized, \* browser_pool.is_initialized
    pc,             \* position of the scrape_intelligent call in flight
    req,            \* arguments of the call: [url, bypass_cache]
    url,            \* local variable url (effective URL)
    attempt,        \* loop index i of _scrape_basic
    result,         \* local variable result (ScrapingResult of the fast layer)
    browser_result, \* local variable browser_result
    ret,            \* dictionary returned by the call
    trace,          \* history: layers invoked by the call, in order
    calls,          \* history: number of calls started
    lastOk          \* history: the last call that acquired a result itself and
                    \* returned it with status 'success' (requested URL, effective
                    \* URL, time since its return), while that time is within
                    \* ttl_seconds and no cache entry has been evicted since
VARIABLES
    \* ---- stream_analysis_progress (one batch) ----
    bpc,            \* position of the generator
    hung,           \* environment: URLs whose site never answers
    wget_tasks,     \* url -> the wget_scraper.scrape coroutine of Wave 1
    wget_results_map, \* local variable wget_results_map (result url -> result)
    events,         \* the events yielded so far, in order
    matches,        \* local variable matches
    failed_sites,   \* local variable failed_sites
    failed_count,   \* local variable failed_count
    idx,            \* index (from 1) of the processing task being awaited
    wpc,            \* position of that task in process_competitor_with_ai
    scrape_result,  \* its local variable scrape_result
    raised,         \* history: URLs whose processing raised an exception
    ai_calls        \* history: the calls of classify_competitor_with_ai
VARIABLES
    \* ---- the percentage of a progress event ----
    index,          \* argument index of process_competitor_with_ai
    total_urls,     \* local variable total_urls
    _percentage     \* match._percentage
VARIABLES
    \* ---- HybridScraperV2.find_working_url (one call) ----
    fpc,            \* position of the call
    fw_original_url, \* its argument original_url
    variants,       \* local variable variants
    probes,         \* history: the HEAD requests sent so far
    working_url,    \* the value returned
    head_status     \* response.status of the last HEAD request, or "exception"
VARIABLES
    \* ---- classify_competitor_status (one call) ----
    score,          \* its argument
    classification  \* the dict it returned, None before the call
VARIABLES
    \* ---- BrowserPool (browser_pool.py) and the coroutines that use it ----
    sessions,       \* browser_pool.sessions: the BrowserSession objects, by identity
    browsers,       \* every browser launched so far, with the fields of its session
    callers,        \* the coroutines using the pool: operation, position, locals
    pool_calls,     \* operations started so far
    playwright_instance \* browser_pool.playwright_instance is set
VARIABLES
    \* ---- WgetScraper (wget_scraper.py): Wave 1 of one batch ----
    batch_urls,     \* the urls of the batch, one wget_scraper.scrape coroutine each
    tmp_mirror,     \* the files under /tmp/mirror_{job_id}: directory, the scrape
                    \* whose process wrote the file, page
    scrapes         \* the scrape coroutines: position, strategy, locals

cacheVars  == <<cache, now, useOrder, overwritten, cacheOp>>
scrapeVars == <<cache_enabled, is_initialized, pc, req, url, attempt, result,
                browser_result, ret, trace, calls, lastOk>>
batchVars  == <<bpc, hung, wget_tasks, wget_results_map, events, matches,
                failed_sites, failed_count, idx, wpc, scrape_result, raised, ai_calls>>
percentVars == <<index, total_urls, _percentage>>
resolverVars == <<fpc, fw_original_url, variants, probes, working_url, head_status>>
classifyVars == <<score, classification>>
poolVars == <<sessions, browsers, callers, pool_calls, playwright_instance>>
wgetVars == <<batch_urls, tmp_mirror, scrapes>>
vars == <<cacheVars, scrapeVars, batchVars, percentVars, resolverVars, classifyVars,
          poolVars, wgetVars>>

\* everything but the pool and its is_initialized
notPoolVars == <<cacheVars, cache_enabled, pc, req, url, attempt, result, browser_result,
                 ret, trace, calls, lastOk, batchVars, percentVars, resolverVars,
                 classifyVars, wgetVars>>

-----------------------------------------------------------------------------
(* Bounds of the model *)

MaxSize == 2        \* ScrapingCache.max_size, scaled down
TtlSeconds == 1     \* ScrapingCache.ttl_seconds, scaled down
MaxTime == 2        \* the clock stops advancing here
MaxCalls == 3       \* scrape_intelligent calls in one behaviour
max_concurrent == 2 \* WgetScraper.max_concurrent (10), scaled to the batch of urls
MaxTotal == 50      \* largest batch for which a percentage is computed

(* Python string helpers *)

UpperChars == "ABCDEFGHIJKLMNOPQRSTUVWXYZ"
LowerChars == "abcdefghijklmnopqrstuvwxyz"
DigitChars == "0123456789"

CharAt(s, i) == SubSeq(s, i, i)

\* str.lower() of one character
LowerChar(c) ==
    IF \E i \in 1..Len(UpperChars) : CharAt(UpperChars, i) = c
    THEN CharAt(LowerChars, CHOOSE i \in 1..Len(UpperChars) : CharAt(UpperChars, i) = c)
    ELSE c

\* str.lower()
RECURSIVE Lower(_)
Lower(s) ==
    IF Len(s) = 0 THEN ""
    ELSE IF Len(s) = 1 THEN LowerChar(s)
    ELSE LET h == Len(s) \div 2 IN
         Lower(SubSeq(s, 1, h)) \o Lower(SubSeq(s, h + 1, Len(s)))

\* needle in hay
Contains(hay, needle) ==
    \E i \in 1..(Len(hay) - Len(needle) + 1) : SubSeq(hay, i, i + Len(needle) - 1) = needle

\* str(n) for a natural number
RECURSIVE Str(_)
Str(n) == IF n < 10 THEN CharAt(DigitChars, n + 1)
          ELSE Str(n \div 10) \o CharAt(DigitChars, (n % 10) + 1)

-----------------------------------------------------------------------------
(* ScrapingCache *)

None == [none |-> TRUE]
NoUrl == ""
NoCall == [url |-> NoUrl, key |-> NoUrl, age |-> 0, bypass |-> FALSE]

Urls == {"https://a.it", "https://b.it", "https://c.it", "https://d.it"}

\* _get_url_hash: hashlib.md5(url.encode()).hexdigest(); distinct URLs give
\* distinct digests
_get_url_hash(u) == "md5:" \o u

Keys(c) == {c[i].key : i \in 1..Len(c)}
IndexOf(c, k) == CHOOSE i \in 1..Len(c) : c[i].key = k
EntryOf(c, k) == c[IndexOf(c, k)]
Without(c, k) == SelectSeq(c, LAMBDA e : e.key # k)
WithoutU(o, k) == SelectSeq(o, LAMBDA x : x # k)

\* get without the move_to_end of a hit
CacheGet_NoPromote(c, u, t) ==
    LET k == _get_url_hash(u) IN
    IF k \notin Keys(c)
    THEN [cache |-> c, value |-> None, outcome |-> "miss"]
    ELSE LET e == c[IndexOf(c, k)] IN
         IF t - e.ts > TtlSeconds
         THEN [cache |-> Without(c, k), value |-> None, outcome |-> "expired"]
         ELSE [cache |-> c, value |-> e.data, outcome |-> "hit"]

\* get that reports an expired entry as a miss but leaves it in the store
CacheGet_KeepExpired(c, u, t) ==
    LET k == _get_url_hash(u) IN
    IF k \notin Keys(c)
    THEN [cache |-> c, value |-> None, outcome |-> "miss"]
    ELSE LET e == c[IndexOf(c, k)] IN
         IF t - e.ts > TtlSeconds
         THEN [cache |-> c, value |-> None, outcome |-> "expired"]
         ELSE [cache |-> Append(Without(c, k), e), value |-> e.data, outcome |-> "hit"]

\* ScrapingCache.get, as a function of the store and the clock
CacheGet(c, u, t) ==
    LET k == _get_url_hash(u) IN
    IF k \notin Keys(c)
    THEN [cache |-> c, value |-> None, outcome |-> "miss"]
    ELSE LET e == c[IndexOf(c, k)] IN
         IF t - e.ts > TtlSeconds
         THEN [cache |-> Without(c, k), value |-> None, outcome |-> "expired"]
         ELSE [cache |-> Append(Without(c, k), e), value |-> e.data, outcome |-> "hit"]

\* ScrapingCache.set that evicts only once the store is over max_size
CacheSet_EvictLate(c, u, d, t) ==
    LET k == _get_url_hash(u)
        full == Len(c) > MaxSize /\ k \notin Keys(c)
        c1 == IF full THEN Tail(c) ELSE c
        e == [key |-> k, data |-> d, ts |-> t]
    IN [cache |-> IF k \in Keys(c1)
                  THEN [c1 EXCEPT ![IndexOf(c1, k)] = e]
                  ELSE Append(c1, e),
        evicted |-> IF full THEN Head(c).key ELSE NoUrl]

\* ScrapingCache.set
CacheSet(c, u, d, t) ==
    LET k == _get_url_hash(u)
        full == Len(c) >= MaxSize /\ k \notin Keys(c)
        c1 == IF full THEN Tail(c) ELSE c
        e == [key |-> k, data |-> d, ts |-> t]
    IN [cache |-> IF k \in Keys(c1)
                  THEN [c1 EXCEPT ![IndexOf(c1, k)] = e]
                  ELSE Append(c1, e),
        evicted |-> IF full THEN Head(c).key ELSE NoUrl]

\* ScrapingCache.remove
CacheRemove(c, u) == Without(c, _get_url_hash(u))

\* values stored by the cache operations of the stand-alone cache specification
CacheData == {[url |-> "https://a.it", status |-> s, from_cache |-> FALSE] :
                  s \in {"success", "extraction_failed"}}

Set(u, d) ==
    LET k == _get_url_hash(u)
        r == CacheSet(cache, u, d, now) IN
    /\ cache' = r.cache
    /\ useOrder' = Append(WithoutU(WithoutU(useOrder, r.evicted), k), k)
    /\ overwritten' = (overwritten \/ k \in Keys(cache))
    /\ cacheOp' = [op |-> "set", url |-> u, value |-> d, evicted |-> r.evicted,
                   outcome |-> IF r.evicted # NoUrl THEN "evict" ELSE "stored",
                   seq |-> 1 - cacheOp.seq]
    /\ UNCHANGED now

Get(u) ==
    LET k == _get_url_hash(u)
        r == CacheGet(cache, u, now) IN
    /\ cache' = r.cache
    /\ useOrder' = IF r.outcome = "hit" THEN Append(WithoutU(useOrder, k), k)
                   ELSE WithoutU(useOrder, k)
    /\ cacheOp' = [op |-> "get", url |-> u, value |-> r.value, evicted |-> NoUrl,
                   outcome |-> r.outcome, seq |-> 1 - cacheOp.seq]
    /\ UNCHANGED <<now, overwritten>>

Remove(u) ==
    /\ cache' = CacheRemove(cache, u)
    /\ useOrder' = WithoutU(useOrder, _get_url_hash(u))
    /\ cacheOp' = [op |-> "remove", url |-> u, value |-> None, evicted |-> NoUrl,
                   outcome |-> IF _get_url_hash(u) \in Keys(cache) THEN "removed" ELSE "absent",
                   seq |-> 1 - cacheOp.seq]
    /\ UNCHANGED <<now, overwritten>>

Clear ==
    /\ cache' = <<>>
    /\ useOrder' = <<>>
    /\ overwritten' = FALSE
    /\ cacheOp' = [op |-> "clear", url |-> NoUrl, value |-> None, evicted |-> NoUrl,
                   outcome |-> "cleared", seq |-> 1 - cacheOp.seq]
    /\ UNCHANGED now

Tick ==
    /\ now < MaxTime
    /\ now' = now + 1
    /\ UNCHANGED <<cache, useOrder, overwritten, cacheOp>>

NoOp == [op |-> "none", url |-> NoUrl, value |-> None, evicted |-> NoUrl, outcome |-> "none",
         seq |-> 0]

CacheInit ==
    /\ cache = <<>>
    /\ now = 0
    /\ useOrder = <<>>
    /\ overwritten = FALSE
    /\ cacheOp = NoOp

ScrapeIdle ==
    /\ cache_enabled = TRUE
    /\ is_initialized = FALSE
    /\ pc = "idle"
    /\ req = [url |-> NoUrl, bypass_cache |-> FALSE]
    /\ url = NoUrl
    /\ attempt = 0
    /\ result = None
    /\ browser_result = None
    /\ ret = None
    /\ trace = <<>>
    /\ calls = 0
    /\ lastOk = NoCall

\* no batch is running
BatchIdle ==
    /\ bpc = "init"
    /\ hung = {}
    /\ wget_tasks = <<>>
    /\ wget_results_map = <<>>
    /\ events = <<>>
    /\ matches = <<>>
    /\ failed_sites = <<>>
    /\ failed_count = 0
    /\ idx = 0
    /\ wpc = "none"
    /\ scrape_result = None
    /\ raised = {}
    /\ ai_calls = <<>>

\* the match has no _percentage attribute yet
Unset == -1

\* no percentage is being computed
PercentIdle ==
    /\ index = 0
    /\ total_urls = 0
    /\ _percentage = Unset

\* find_working_url is not running
ResolverIdle ==
    /\ fpc = "idle"
    /\ fw_original_url = NoUrl
    /\ variants = <<>>
    /\ probes = <<>>
    /\ working_url = None
    /\ head_status = "none"

\* the coroutines that use the pool
Callers == {1, 2}

\* a coroutine that is not using the pool
IdleCaller ==
    [op |-> "none", pc |-> "idle", i |-> 0, unhealthy |-> <<>>, k |-> 0, session |-> 0,
     attempt |-> 0, passes |-> 0, page |-> "none", ret |-> None]

\* BrowserPool.__init__ (lines 41-47): no session, nobody uses the pool
PoolIdle ==
    /\ sessions = <<>>
    /\ browsers = <<>>
    /\ callers = [c \in Callers |-> IdleCaller]
    /\ pool_calls = 0
    /\ playwright_instance = FALSE

\* no batch is in its Wave 1
WgetIdle ==
    /\ batch_urls = <<>>
    /\ tmp_mirror = {}
    /\ scrapes = <<>>

\* classify_competitor_status is not running
ClassifyIdle ==
    /\ score = 0
    /\ classification = None

InitCache ==
    /\ CacheInit /\ ScrapeIdle /\ BatchIdle /\ PercentIdle /\ ResolverIdle
    /\ ClassifyIdle /\ PoolIdle /\ WgetIdle

NextCache ==
    \/ \E u \in Urls, d \in CacheData : Set(u, d) /\ UNCHANGED <<scrapeVars, batchVars, percentVars, resolverVars, classifyVars, poolVars, wgetVars>>
    \/ \E u \in Urls : Get(u) /\ UNCHANGED <<scrapeVars, batchVars, percentVars, resolverVars, classifyVars, poolVars, wgetVars>>
    \/ \E u \in Urls : Remove(u) /\ UNCHANGED <<scrapeVars, batchVars, percentVars, resolverVars, classifyVars, poolVars, wgetVars>>
    \/ Clear /\ UNCHANGED <<scrapeVars, batchVars, percentVars, resolverVars, classifyVars, poolVars, wgetVars>>
    \/ Tick /\ UNCHANGED <<scrapeVars, batchVars, percentVars, resolverVars, classifyVars, poolVars, wgetVars>>

SpecCache == InitCache /\ [][NextCache]_vars

-----------------------------------------------------------------------------
(* HybridScraperV2: the fast layer, _scrape_basic *)

\* lengths of the documents a site may answer with
LenChoices == {0, 500, 501, 1000}

\* HTTP status codes a site may answer with
Statuses == {200, 400, 401, 403, 404, 418, 429, 500, 502, 503, 504}

\* exceptions raised by the HTTP client (type(e).__name__, str(e)); h_class
\* is the kind of fault behind the exception
Exceptions == {
    [type |-> "ClientConnectorSSLError", h_class |-> "tls",
     msg |-> "Cannot connect to host a.it:443 ssl:default [CERTIFICATE_VERIFY_FAILED]"],
    [type |-> "ClientConnectorError", h_class |-> "refused",
     msg |-> "Cannot connect to host a.it:443 ssl:default [Connect call failed]"],
    [type |-> "ClientConnectorError", h_class |-> "dns",
     msg |-> "Cannot connect to host a.it:443 ssl:default [Name or service not known]"],
    [type |-> "TimeoutError", h_class |-> "timeout", msg |-> ""],
    [type |-> "ClientPayloadError", h_class |-> "payload",
     msg |-> "Response payload is not completed"] }

\* what one connection attempt of _scrape_basic can meet
AttemptOutcomes ==
    {[kind |-> "http", status |-> 200, len |-> l] : l \in LenChoices}
    \cup {[kind |-> "http", status |-> st, len |-> 0] : st \in Statuses \ {200}}
    \cup {[kind |-> "exc", exc |-> e] : e \in Exceptions}

\* error_titles.get(response.status, "Errore HTTP")
error_titles(status) ==
    CASE status = 400 -> "Richiesta Non Valida"
      [] status = 401 -> "Autenticazione Richiesta"
      [] status = 403 -> "Accesso Negato - Sito Protetto da WAF/Firewall"
      [] status = 404 -> "Pagina Non Trovata"
      [] status = 429 -> "Troppe Richieste - Rate Limit"
      [] status = 500 -> "Errore Server Interno"
      [] status = 502 -> "Gateway Non Raggiungibile"
      [] status = 503 -> "Servizio Temporaneamente Non Disponibile"
      [] status = 504 -> "Timeout Gateway"
      [] OTHER -> "Errore HTTP"

\* error_msg = f"{error_title} (HTTP {response.status})"
HttpErrorMsg(status) == error_titles(status) \o " (HTTP " \o Str(status) \o ")"

\* ExceptionMsg that is str(e) alone
ExceptionMsg_Raw(e) == e.msg

\* f"{error_type}: {error_msg}" if error_msg else f"{error_type}: Unknown error"
ExceptionMsg(e) == IF e.msg # "" THEN e.type \o ": " \o e.msg
                   ELSE e.type \o ": Unknown error"

\* ScrapingResult; h_status is the status of the HTTP response the result was
\* built from (0: none), h_class the kind of fault behind a failure
ScrapingResult(success, content_length, error, method, h_status, h_class) ==
    [success |-> success, content_length |-> content_length, error |-> error,
     method |-> method, h_status |-> h_status, h_class |-> h_class]

connectors == 3

\* the result with which attempt i of _scrape_basic ends the call, or None when
\* the loop goes on to the next connector
BasicStep(i, o) ==
    IF o.kind = "http"
    THEN IF 200 <= o.status /\ o.status < 300
         THEN ScrapingResult(TRUE, o.len, "", "basic", o.status, "none")
         ELSE IF i = connectors - 1
              THEN ScrapingResult(FALSE, 0, HttpErrorMsg(o.status), "basic", o.status, "http")
              ELSE None
    ELSE IF i = connectors - 1
         THEN ScrapingResult(FALSE, 0, ExceptionMsg(o.exc), "basic", 0, o.exc.h_class)
         ELSE None

\* should_try_redirect that holds for every failure of the fast layer
should_try_redirect_AnyFailure(error) == TRUE

\* should_try_redirect of scrape_intelligent (lines 210-217)
should_try_redirect(error) ==
    LET error_lower == Lower(error) IN
        \/ Contains(error_lower, "ssl")
        \/ Contains(error_lower, "connection")
        \/ Contains(error_lower, "connect")
        \/ Contains(error_lower, "timeout")
        \/ Contains(error_lower, "cannot connect")

-----------------------------------------------------------------------------
(* HybridScraperV2.find_working_url and the rendered layer *)

\* URLs scrape_intelligent is called with
ScrapeUrls == {"https://a.it"}

\* first variant generated for a URL without www: f"https://www.{base_name}.{original_tld}"
WwwVariant(u) == "https://www." \o SubSeq(u, Len("https://") + 1, Len(u))

\* what find_working_url can return: a probed variant that answered, or the
\* original URL
FindWorkingUrlOutcomes(original_url) == {original_url, WwwVariant(original_url)}

\* what the pooled browser can do for _scrape_with_browser_pool
RenderOutcomes ==
    {[kind |-> "no_session"], [kind |-> "timeout"],
     [kind |-> "exception", msg |-> "Target page, context or browser has been closed"]}
    \cup {[kind |-> "content", len |-> l] : l \in LenChoices}

\* _scrape_with_browser_pool once the pool is initialized
BrowserPoolResult(o) ==
    CASE o.kind = "no_session" ->
            ScrapingResult(FALSE, 0, "Browser pool not available", "browser_pool", 0, "pool")
      [] o.kind = "timeout" ->
            ScrapingResult(FALSE, 0, "Browser pool timeout (15s)", "browser_pool", 0, "timeout")
      [] o.kind = "exception" ->
            ScrapingResult(FALSE, 0, o.msg, "browser_pool", 0, "exception")
      [] o.kind = "content" ->
            IF o.len > 500
            THEN ScrapingResult(TRUE, o.len, "", "browser_pool", 0, "none")
            ELSE ScrapingResult(FALSE, 0, "Insufficient content: " \o Str(o.len) \o " chars",
                                "browser_pool", 0, "insufficient")

PoolNotInitialized ==
    ScrapingResult(FALSE, 0, "Browser pool not initialized (resource protection)",
                   "browser_pool", 0, "pool")

\* _extract_keywords_smart, plus the redirected_url key scrape_intelligent adds
\* (an absent key is the empty string, an absent from_cache is FALSE)
KeywordsData(u, original_url, ok) ==
    [url |-> u,
     status |-> IF ok THEN "success" ELSE "extraction_failed",
     scraping_method |-> "hybrid_v2",
     redirected_url |-> IF u # original_url THEN u ELSE NoUrl,
     from_cache |-> FALSE,
     error |-> IF ok THEN "" ELSE "extraction error"]

\* what a call returns: the dictionary, with the layer that acquired its
\* content in this call (h_via) and the raw length of that content (h_len)
Returned(d, via, len) == [data |-> d, h_via |-> via, h_len |-> len]

\* the dictionary returned when both layers failed
FailedData(original_url, basic, browser) ==
    [url |-> original_url,
     status |-> "failed",
     scraping_method |-> "none",
     redirected_url |-> NoUrl,
     from_cache |-> FALSE,
     error |-> "All scraping methods failed. Basic HTTP: " \o basic.error
               \o ", Browser Pool: " \o browser.error]

\* _get_error_suggestion of api/analyze_stream.py: the first category whose
\* marker occurs in the error message
_get_error_suggestion(error_msg) ==
    LET error_lower == Lower(error_msg) IN
    IF Contains(error_lower, "timeout") \/ Contains(error_lower, "timed out")
    THEN "Sito troppo lento o bloccato - riprova manualmente o contatta il sito"
    ELSE IF Contains(error_msg, "403") \/ Contains(error_msg, "401")
    THEN "Sito protetto da WAF/firewall - necessario accesso manuale o credenziali"
    ELSE IF Contains(error_lower, "connection") \/ Contains(error_lower, "connect")
    THEN "Sito temporaneamente irraggiungibile - verifica che sia online"
    ELSE IF Contains(error_lower, "ssl") \/ Contains(error_lower, "certificate")
    THEN "Problemi certificato SSL - sito potrebbe avere configurazione errata"
    ELSE IF Contains(error_msg, "404")
    THEN "Pagina non trovata - verifica URL corretto"
    ELSE IF Contains(error_msg, "500") \/ Contains(error_msg, "502") \/ Contains(error_msg, "503")
    THEN "Errore server del sito - riprova più tardi"
    ELSE "Errore generico - verifica manualmente il sito"

\* the failed_sites entry process_competitor_with_ai records for a fallback
\* that returned the dictionary d without status 'success' (lines 313-327);
\* error is error_msg[:100]
FailedSiteData(u, d) ==
    [url |-> u,
     error |-> SubSeq(d.error, 1, IF Len(d.error) < 100 THEN Len(d.error) ELSE 100),
     suggestion |-> _get_error_suggestion(d.error)]

-----------------------------------------------------------------------------
(* HybridScraperV2.scrape_intelligent, one call at a time *)

\* history: the call that returns r acquired the content itself, through the
\* fast layer (sufficient content) or the rendered layer, with status 'success'
Acquired(r) == r.data.status = "success" /\ r.h_via \in {"basic", "browser_pool"}

\* history kept at a return of the call; lost is TRUE when the step removed
\* an entry from the cache
LastOkAfter(r, lost) ==
    IF Acquired(r) THEN [url |-> req.url, key |-> url, age |-> 0,
                         bypass |-> req.bypass_cache]
    ELSE IF lost THEN NoCall ELSE lastOk

\* StoreResult that keys the entry by the URL the caller asked for
StoreResult_RequestedUrl(u, d) ==
    IF cache_enabled THEN CacheSet(cache, req.url, d, now).cache ELSE cache

\* ScrapingCache.set as called by scrape_intelligent (a no-op when the cache
\* is disabled)
StoreResult(u, d) == IF cache_enabled THEN CacheSet(cache, u, d, now).cache ELSE cache
StoreEvicts(u, d) == cache_enabled /\ CacheSet(cache, u, d, now).evicted # NoUrl

\* scrape_intelligent(url, bypass_cache=bypass) is called
Start(u, bypass) ==
    /\ pc = "idle"
    /\ calls < MaxCalls
    /\ calls' = calls + 1
    /\ pc' = "check_cache"
    /\ req' = [url |-> u, bypass_cache |-> bypass]
    /\ url' = u
    /\ UNCHANGED <<cacheVars, cache_enabled, is_initialized, attempt, result,
                   browser_result, ret, trace, lastOk>>

\* lines 192-201: the cache lookup; a hit marks the stored dictionary with
\* from_cache and returns it
CheckCache ==
    /\ pc = "check_cache"
    /\ IF cache_enabled /\ ~req.bypass_cache
       THEN LET r == CacheGet(cache, url, now) IN
            IF r.outcome = "hit"
            THEN LET d == [r.value EXCEPT !.from_cache = TRUE]
                     n == Len(r.cache) IN
                 /\ cache' = [r.cache EXCEPT ![n].data = d]
                 /\ ret' = Returned(d, "cache", 0)
                 /\ pc' = "done"
                 /\ trace' = Append(trace, "cache")
                 /\ UNCHANGED lastOk
            ELSE /\ cache' = r.cache
                 /\ pc' = "fast"
                 /\ trace' = Append(trace, "cache")
                 /\ UNCHANGED <<ret, lastOk>>
       ELSE /\ pc' = "fast"
            /\ UNCHANGED <<cache, ret, trace, calls, lastOk>>
    /\ UNCHANGED <<now, useOrder, overwritten, cacheOp, cache_enabled, is_initialized,
                   req, url, attempt, result, browser_result, calls>>

\* AfterBasic that looks for an alternative URL after every fast fetch
AfterBasic_AlwaysResolve(r) == "resolve"

\* where scrape_intelligent goes when _scrape_basic has returned r
AfterBasic(r) ==
    IF pc = "fast" /\ ~r.success /\ should_try_redirect(r.error)
    THEN "resolve" ELSE "validate"

\* one connection attempt of _scrape_basic (lines 450-531), in the first fast
\* fetch or in the retry on the alternative URL
BasicAttempt(o) ==
    /\ pc \in {"fast", "retry_fast"}
    /\ trace' = IF attempt = 0 THEN Append(trace, "basic") ELSE trace
    /\ LET r == BasicStep(attempt, o) IN
       IF r = None
       THEN /\ attempt' = attempt + 1
            /\ UNCHANGED <<pc, result>>
       ELSE /\ attempt' = 0
            /\ result' = r
            /\ pc' = AfterBasic(r)
    /\ UNCHANGED <<cacheVars, cache_enabled, is_initialized, req, url,
                   browser_result, ret, calls, lastOk>>

\* find_working_url followed by a retry of the fast fetch whatever URL it
\* returned
Resolve_AlwaysRetry(alternative_url) ==
    /\ pc = "resolve"
    /\ trace' = Append(trace, "resolver")
    /\ url' = alternative_url
    /\ pc' = "retry_fast"
    /\ UNCHANGED <<cacheVars, cache_enabled, is_initialized, req, attempt, result,
                   browser_result, ret, calls, lastOk>>

\* lines 219-229: find_working_url, and the switch to the alternative URL
Resolve(alternative_url) ==
    /\ pc = "resolve"
    /\ trace' = Append(trace, "resolver")
    /\ IF alternative_url # req.url
       THEN /\ url' = alternative_url
            /\ pc' = "retry_fast"
       ELSE /\ pc' = "validate"
            /\ UNCHANGED url
    /\ UNCHANGED <<cacheVars, cache_enabled, is_initialized, req, attempt, result,
                   browser_result, ret, calls, lastOk>>

\* content_sufficient with > in place of >=
content_sufficient_Above == result.success /\ result.content_length > 1000

\* content_sufficient without the length test
content_sufficient_AnySuccess == result.success

\* line 232
content_sufficient == result.success /\ result.content_length >= 1000

\* lines 234-246: the fast layer's content is sufficient
BasicSuccess(ok) ==
    /\ pc = "validate"
    /\ content_sufficient
    /\ LET d == KeywordsData(url, req.url, ok)
           r == Returned(d, "basic", result.content_length) IN
       /\ cache' = StoreResult(url, d)
       /\ ret' = r
       /\ lastOk' = LastOkAfter(r, StoreEvicts(url, d))
    /\ pc' = "done"
    /\ UNCHANGED <<now, useOrder, overwritten, cacheOp, cache_enabled, is_initialized,
                   req, url, attempt, result, browser_result, trace, calls>>

\* lines 257-266: no browser pool, the insufficient fast content is used anyway
BasicUsedAnyway(ok) ==
    /\ pc = "validate"
    /\ ~content_sufficient
    /\ ~is_initialized
    /\ result.success /\ result.content_length > 0
    /\ ret' = Returned(KeywordsData(url, req.url, ok), "basic_degraded",
                        result.content_length)
    /\ pc' = "done"
    /\ UNCHANGED <<cacheVars, cache_enabled, is_initialized, req, url, attempt, result,
                   browser_result, trace, calls, lastOk>>

\* lines 269 and 311-321: _scrape_with_browser_pool is called; without a pool
\* it fails at once and scrape_intelligent returns the failure of both layers
BrowserPoolCall ==
    /\ pc = "validate"
    /\ ~content_sufficient
    /\ ~(~is_initialized /\ result.success /\ result.content_length > 0)
    /\ trace' = Append(trace, "render")
    /\ IF is_initialized
       THEN /\ pc' = "render"
            /\ UNCHANGED <<browser_result, ret>>
       ELSE /\ browser_result' = PoolNotInitialized
            /\ ret' = Returned(FailedData(req.url, result, PoolNotInitialized), "none", 0)
            /\ pc' = "done"
    /\ UNCHANGED <<cacheVars, cache_enabled, is_initialized, req, url, attempt, result,
                   calls, lastOk>>

\* lines 326-372 and 272-305: the pooled browser answers and scrape_intelligent
\* returns
BrowserPoolReturn(o, ok) ==
    /\ pc = "render"
    /\ LET b == BrowserPoolResult(o)
           d == IF b.success THEN KeywordsData(url, req.url, ok)
                ELSE FailedData(req.url, result, b)
           r == IF b.success THEN Returned(d, "browser_pool", b.content_length)
                ELSE Returned(d, "none", 0) IN
       /\ browser_result' = b
       /\ ret' = r
       /\ cache' = IF b.success THEN StoreResult(url, d) ELSE cache
       /\ lastOk' = LastOkAfter(r, b.success /\ StoreEvicts(url, d))
    /\ pc' = "done"
    /\ UNCHANGED <<now, useOrder, overwritten, cacheOp, cache_enabled, is_initialized,
                   req, url, attempt, result, trace, calls>>

\* the caller has the result; the next call may start
Finish ==
    /\ pc = "done"
    /\ pc' = "idle"
    /\ req' = [url |-> NoUrl, bypass_cache |-> FALSE]
    /\ url' = NoUrl
    /\ result' = None
    /\ browser_result' = None
    /\ ret' = None
    /\ trace' = <<>>
    /\ UNCHANGED <<cacheVars, cache_enabled, is_initialized, attempt, calls, lastOk>>

\* BrowserPool.initialize succeeds (startup, or a get_session of another caller)
PoolInitialize ==
    /\ ~is_initialized
    /\ is_initialized' = TRUE
    /\ UNCHANGED <<cacheVars, cache_enabled, pc, req, url, attempt, result,
                   browser_result, ret, trace, calls, lastOk>>

\* BrowserPool.cleanup
PoolCleanup ==
    /\ is_initialized
    /\ is_initialized' = FALSE
    /\ UNCHANGED <<cacheVars, cache_enabled, pc, req, url, attempt, result,
                   browser_result, ret, trace, calls, lastOk>>

\* time passes
ScrapeTick ==
    /\ Tick
    /\ lastOk' = IF lastOk = NoCall \/ lastOk.age + 1 > TtlSeconds THEN NoCall
                 ELSE [lastOk EXCEPT !.age = @ + 1]
    /\ UNCHANGED <<cache_enabled, is_initialized, pc, req, url, attempt, result,
                   browser_result, ret, trace, calls>>

Init ==
    /\ CacheInit
    /\ cache_enabled \in BOOLEAN
    /\ is_initialized = FALSE
    /\ pc = "idle"
    /\ req = [url |-> NoUrl, bypass_cache |-> FALSE]
    /\ url = NoUrl
    /\ attempt = 0
    /\ result = None
    /\ browser_result = None
    /\ ret = None
    /\ trace = <<>>
    /\ calls = 0
    /\ lastOk = NoCall
    /\ BatchIdle /\ PercentIdle /\ ResolverIdle /\ ClassifyIdle /\ PoolIdle /\ WgetIdle

Next ==
    \/ \E u \in ScrapeUrls, bypass \in BOOLEAN : Start(u, bypass) /\ UNCHANGED <<batchVars, percentVars, resolverVars, classifyVars, poolVars, wgetVars>>
    \/ CheckCache /\ UNCHANGED <<batchVars, percentVars, resolverVars, classifyVars, poolVars, wgetVars>>
    \/ \E o \in AttemptOutcomes : BasicAttempt(o) /\ UNCHANGED <<batchVars, percentVars, resolverVars, classifyVars, poolVars, wgetVars>>
    \/ \E a \in FindWorkingUrlOutcomes(req.url) : Resolve(a) /\ UNCHANGED <<batchVars, percentVars, resolverVars, classifyVars, poolVars, wgetVars>>
    \/ \E ok \in BOOLEAN : BasicSuccess(ok) /\ UNCHANGED <<batchVars, percentVars, resolverVars, classifyVars, poolVars, wgetVars>>
    \/ \E ok \in BOOLEAN : BasicUsedAnyway(ok) /\ UNCHANGED <<batchVars, percentVars, resolverVars, classifyVars, poolVars, wgetVars>>
    \/ BrowserPoolCall /\ UNCHANGED <<batchVars, percentVars, resolverVars, classifyVars, poolVars, wgetVars>>
    \/ \E o \in RenderOutcomes, ok \in BOOLEAN : BrowserPoolReturn(o, ok) /\ UNCHANGED <<batchVars, percentVars, resolverVars, classifyVars, poolVars, wgetVars>>
    \/ Finish /\ UNCHANGED <<batchVars, percentVars, resolverVars, classifyVars, poolVars, wgetVars>>
    \/ PoolInitialize /\ UNCHANGED <<batchVars, percentVars, resolverVars, classifyVars, poolVars, wgetVars>>
    \/ PoolCleanup /\ UNCHANGED <<batchVars, percentVars, resolverVars, classifyVars, poolVars, wgetVars>>
    \/ ScrapeTick /\ UNCHANGED <<batchVars, percentVars, resolverVars, classifyVars, poolVars, wgetVars>>

Spec == Init /\ [][Next]_vars

-----------------------------------------------------------------------------
(* HybridScraperV2.find_working_url, probe by probe *)

\* Python string methods: s.startswith(p), s.find(sub) counted from 1 (0 when
\* absent), s.replace(old, new), s.split(sep)
StartsWith(s, p) == Len(s) >= Len(p) /\ SubSeq(s, 1, Len(p)) = p
Find(s, sub) ==
    LET hits == {i \in 1..(Len(s) - Len(sub) + 1) : SubSeq(s, i, i + Len(sub) - 1) = sub}
    IN IF hits = {} THEN 0 ELSE CHOOSE i \in hits : \A j \in hits : i <= j
RECURSIVE Replace(_, _, _)
Replace(s, old, new) ==
    LET i == Find(s, old) IN
    IF i = 0 THEN s
    ELSE SubSeq(s, 1, i - 1) \o new \o Replace(SubSeq(s, i + Len(old), Len(s)), old, new)
RECURSIVE Split(_, _)
Split(s, sep) ==
    LET i == Find(s, sep) IN
    IF i = 0 THEN <<s>>
    ELSE <<SubSeq(s, 1, i - 1)>> \o Split(SubSeq(s, i + Len(sep), Len(s)), sep)

\* urlparse(u).netloc: what follows "://" up to the next "/", "?" or "#"; empty
\* when the URL has no "://"
Netloc(u) ==
    LET i == Find(u, "://")
        rest == SubSeq(u, i + 3, Len(u))
        ends == {j \in 1..Len(rest) : CharAt(rest, j) \in {"/", "?", "#"}}
    IN IF i = 0 THEN ""
       ELSE IF ends = {} THEN rest
       ELSE SubSeq(rest, 1, (CHOOSE j \in ends : \A k \in ends : j <= k) - 1)

\* lines 100, 111-115, 125-126
eu_tlds == <<"eu", "it", "de", "fr", "es", "uk", "com">>
common_paths == <<"/it/index.aspx", "/en/index.aspx", "/index.aspx", "/it/", "/en/",
                  "/it/home", "/en/home", "/home", "/index.html", "/index.php">>
common_suffixes == <<"-group", "-spa", "-srl", "-ahu", "-hvac", "-tech",
                     "-international", "-europe", "-global">>

\* the concatenation of the lists f(q[1]), f(q[2]), ...
RECURSIVE FlatMap(_, _, _)
FlatMap(f(_), q, k) == IF k > Len(q) THEN <<>> ELSE f(q[k]) \o FlatMap(f, q, k + 1)

\* lines 76-78 and 83-84
DomainParts(u) == Split(Replace(Netloc(u), "www.", ""), ".")

\* lines 86-136: the candidates, in the order they are generated
Variants(u) ==
    LET has_www == StartsWith(Netloc(u), "www.")
        domain_parts == DomainParts(u)
        base_name == domain_parts[1]
        original_tld == domain_parts[Len(domain_parts)]
        OfTld(tld) ==
            IF tld # original_tld
            THEN <<"https://www." \o base_name \o "." \o tld,
                   "https://" \o base_name \o "." \o tld,
                   "http://www." \o base_name \o "." \o tld,
                   "http://" \o base_name \o "." \o tld>>
            ELSE <<>>
        OfPath(path) ==
            IF has_www
            THEN <<"https://www." \o base_name \o "." \o original_tld \o path,
                   "http://www." \o base_name \o "." \o original_tld \o path>>
            ELSE <<"https://" \o base_name \o "." \o original_tld \o path,
                   "http://" \o base_name \o "." \o original_tld \o path>>
        OfSuffix(suffix) ==
            <<"https://www." \o base_name \o suffix \o "." \o original_tld,
              "http://www." \o base_name \o suffix \o "." \o original_tld,
              "https://www." \o base_name \o suffix \o ".eu",
              "http://www." \o base_name \o suffix \o ".eu",
              "https://www." \o base_name \o suffix \o ".com",
              "http://" \o base_name \o suffix \o ".com">>
    IN (IF has_www
        THEN <<"https://" \o base_name \o "." \o original_tld,
               "http://" \o base_name \o "." \o original_tld>>
        ELSE <<"https://www." \o base_name \o "." \o original_tld,
               "http://www." \o base_name \o "." \o original_tld>>)
       \o FlatMap(OfTld, eu_tlds, 1)
       \o FlatMap(OfPath, common_paths, 1)
       \o FlatMap(OfSuffix, common_suffixes, 1)
       \o <<u>>

\* line 141: the slice variants[:60]
MaxVariants == 60

\* the whole list of candidates
Probed_All(q) == q

\* variants[:60]
Probed(q) == SubSeq(q, 1, IF Len(q) < MaxVariants THEN Len(q) ELSE MaxVariants)

\* URLs find_working_url is called with: without and with www, a TLD outside
\* eu_tlds, a host of one label, a string that is no URL, and a URL that
\* urlparse rejects
FwUrls == {"https://a.it", "https://www.a.it", "http://a.org/x", "https://localhost", "a.it",
           "http://[a.it"}

\* urlparse raises ValueError('Invalid IPv6 URL') when the netloc holds one
\* square bracket without the other
UrlparseRaises(u) == Contains(Netloc(u), "[") # Contains(Netloc(u), "]")

\* how one HEAD request can end: a status, or an exception (timeout, DNS,
\* refused connection)
HeadOutcomes == {"200", "503", "404", "exception"}

\* line 149: response.status in [200, 503], for any answer with a status
Accepted_AnyStatus(o) == o # "exception"

\* line 149: response.status in [200, 503]
Accepted(o) == o \in {"200", "503"}

\* lines 62-136: the call; a host of fewer than two labels is returned at
\* once, and so is a URL on which urlparse raises (lines 161-163)
FindWorkingUrl(u) ==
    /\ fpc = "idle"
    /\ fw_original_url' = u
    /\ probes' = <<>>
    /\ head_status' = "none"
    /\ IF UrlparseRaises(u) \/ Len(DomainParts(u)) < 2
       THEN /\ fpc' = "returned"
            /\ working_url' = u
            /\ UNCHANGED variants
       ELSE /\ fpc' = "probing"
            /\ variants' = Variants(u)
            /\ UNCHANGED working_url

\* lines 141-155: the HEAD request of the next candidate ends with outcome o
HeadRequest(o) ==
    /\ fpc = "probing"
    /\ Len(probes) < Len(Probed(variants))
    /\ LET variant == Probed(variants)[Len(probes) + 1] IN
       /\ probes' = Append(probes, variant)
       /\ head_status' = o
       /\ IF Accepted(o)
          THEN /\ fpc' = "returned"
               /\ working_url' = variant
          ELSE UNCHANGED <<fpc, working_url>>
    /\ UNCHANGED <<fw_original_url, variants>>

\* lines 157-159: no candidate was accepted
NoneWorking ==
    /\ fpc = "probing"
    /\ Len(probes) = Len(Probed(variants))
    /\ fpc' = "returned"
    /\ working_url' = fw_original_url
    /\ UNCHANGED head_status
    /\ UNCHANGED <<fw_original_url, variants, probes>>

InitResolver ==
    /\ CacheInit /\ ScrapeIdle /\ BatchIdle /\ PercentIdle /\ ResolverIdle
    /\ ClassifyIdle /\ PoolIdle /\ WgetIdle

NextResolver ==
    \/ \E u \in FwUrls : FindWorkingUrl(u)
           /\ UNCHANGED <<cacheVars, scrapeVars, batchVars, percentVars, classifyVars, poolVars, wgetVars>>
    \/ \E o \in HeadOutcomes : HeadRequest(o)
           /\ UNCHANGED <<cacheVars, scrapeVars, batchVars, percentVars, classifyVars, poolVars, wgetVars>>
    \/ NoneWorking /\ UNCHANGED <<cacheVars, scrapeVars, batchVars, percentVars, classifyVars, poolVars, wgetVars>>

SpecResolver == InitResolver /\ [][NextResolver]_vars

-----------------------------------------------------------------------------
(* The percentage of a progress event: int((index / total_urls) * 100) *)

\* binary64 arithmetic of Python floats, for index / total_urls * 100. The 53
\* significant bits of a float are kept as five limbs, most significant first:
\* the leading limb and four limbs of 13 bits; the value of [m, e] is
\* (m[1] + m[2]/2^13 + m[3]/2^26 + m[4]/2^39 + m[5]/2^52) / 2^e
RECURSIVE Pow2(_)
Pow2(k) == IF k = 0 THEN 1 ELSE 2 * Pow2(k - 1)
Limb == Pow2(13)
RECURSIVE BitLen(_)
BitLen(n) == IF n = 0 THEN 0 ELSE 1 + BitLen(n \div 2)

\* carries are moved from each limb into the limb above it
Normalize(m) ==
    LET carry[k \in 1..5] == IF k = 5 THEN 0 ELSE (m[k + 1] + carry[k + 1]) \div Limb
    IN [k \in 1..5 |-> IF k = 1 THEN m[1] + carry[1] ELSE (m[k] + carry[k]) % Limb]

\* the limbs are cut to 53 significant bits, the dropped bits rounding to
\* nearest, ties to even
RoundTo53(m) ==
    LET d == BitLen(m[1]) - 1
        guard == (m[5] \div Pow2(d - 1)) % 2
        sticky == m[5] % Pow2(d - 1) # 0
        lsb == (m[5] \div Pow2(d)) % 2
        up == guard = 1 /\ (sticky \/ lsb = 1)
    IN IF d <= 0 THEN m
       ELSE Normalize([m EXCEPT ![5] = @ - (@ % Pow2(d)) + (IF up THEN Pow2(d) ELSE 0)])

\* i / t for integers 0 < i <= t: long division, 13 bits at a time, then
\* rounding on the next bit and the remainder
RECURSIVE Shift(_, _)
Shift(i, t) == IF i >= t THEN 0 ELSE 1 + Shift(2 * i, t)
TrueDiv(i, t) ==
    LET e == Shift(i, t)
        rem[k \in 1..5] == IF k = 1 THEN (i * Pow2(e)) % t ELSE (rem[k - 1] * Limb) % t
        m == [k \in 1..5 |-> IF k = 1 THEN (i * Pow2(e)) \div t
                             ELSE (rem[k - 1] * Limb) \div t]
        guard == (2 * rem[5]) \div t
        sticky == (2 * rem[5]) % t # 0
        up == guard = 1 /\ (sticky \/ m[5] % 2 = 1)
    IN [m |-> IF up THEN Normalize([m EXCEPT ![5] = @ + 1]) ELSE m, e |-> e]

\* x * k for a small integer k, and int(x)
FloatMul(x, k) == [m |-> RoundTo53(Normalize([j \in 1..5 |-> x.m[j] * k])), e |-> x.e]
FloatInt(x) == x.m[1] \div Pow2(x.e)

\* int((index / total_urls) * 100)
Percentage(i, t) == FloatInt(FloatMul(TrueDiv(i, t), 100))

\* line 375 of analyze_stream.py: match._percentage is set
SetPercentage ==
    /\ _percentage = Unset
    /\ _percentage' = Percentage(index, total_urls)
    /\ UNCHANGED <<index, total_urls>>

\* the processing of the URL at position index of a batch of total_urls URLs
InitPercent ==
    /\ CacheInit /\ ScrapeIdle /\ BatchIdle /\ ResolverIdle /\ ClassifyIdle /\ PoolIdle /\ WgetIdle
    /\ total_urls \in 1..MaxTotal
    /\ index \in 1..total_urls
    /\ _percentage = Unset

NextPercent ==
    SetPercentage /\ UNCHANGED <<cacheVars, scrapeVars, batchVars, resolverVars, classifyVars, poolVars, wgetVars>>

SpecPercent == InitPercent /\ [][NextPercent]_vars

-----------------------------------------------------------------------------
(* stream_analysis_progress: Wave 1, wget_scraper.scrape for every URL *)

\* the urls argument of stream_analysis_progress
urls == <<"https://a.it", "https://b.it", "https://c.it">>
UrlSet == {urls[i] : i \in 1..Len(urls)}

\* int((k / total_urls) * 100) for the counts of this batch
PercentageOfUrls == [k \in 1..Len(urls) |-> Percentage(k, Len(urls))]

\* WgetScraper._smart_mirror_with_fallback, line 148
strategies == <<"default", "minimal", "curl", "aggressive">>

\* how one _smart_mirror call on the site of u can end: "success"; "timeout",
\* the wait_for on the subprocess expires (lines 319-323, 360); "connect_error"
\* and "fetch_timeout", no HTML was written and fallback_fetch fails with a
\* connection error or on its own 15 s timeout (lines 379-382, 412, 436-442).
\* A site that never answers leaves only the two timeouts.
SmartMirrorOutcomes(u) ==
    IF u \in hung THEN {"timeout", "fetch_timeout"}
    ELSE {"success", "timeout", "connect_error", "fetch_timeout"}

\* the 'error' of the failed result of _smart_mirror
SmartMirrorError(o, strategy) ==
    CASE o = "timeout" -> IF strategy = "curl" THEN "curl_timeout"
                          ELSE "timeout_all_strategies"
      [] o = "connect_error" -> "Cannot connect to host a.it:443 ssl:default"
      [] OTHER -> ""

\* the errors of _smart_mirror after which _smart_mirror_with_fallback looks
\* for an alternative URL (line 209: 'ssl' or 'connect' in the lower-cased
\* error)
SmartMirrorErrors ==
    {SmartMirrorError(o, strategies[i]) :
        o \in {"timeout", "connect_error", "fetch_timeout"}, i \in 1..Len(strategies)}
AlternativeUrlErrors ==
    {error \in SmartMirrorErrors :
        Contains(Lower(error), "ssl") \/ Contains(Lower(error), "connect")}

\* WgetScraper.find_working_url: the original URL, or a variant that answered
WgetFindWorkingUrlOutcomes(original_url) == {original_url, WwwVariant(original_url)}

WgetResult(success, u, error) == [success |-> success, url |-> u, error |-> error]

\* the result of a _smart_mirror call that found HTML (lines 382-391): the
\* text of the pages is under the key 'text'
WgetSuccess(u) == [success |-> TRUE, url |-> u, text |-> "text of the pages"]

\* the dictionary scrape_intelligent returns with status 'success'
\* (_extract_keywords_smart, hybrid_scraper_v2.py lines 588-607): the text of
\* the page is under the key 'full_text'
HybridSuccess(u) == [url |-> u, status |-> "success", full_text |-> "text of the page"]

\* d.get(key, default), and the Python expression a or b on strings
DictGet(d, key, default) == IF key \in DOMAIN d THEN d[key] ELSE default
Or(a, b) == IF a # "" THEN a ELSE b

\* the coroutine goes to the next strategy, or returns after the last one
\* (lines 150, 220-227)
NextStrategy(t) ==
    IF t.i = Len(strategies)
    THEN [t EXCEPT !.state = "returned",
                   !.result = WgetResult(FALSE, t.url, "all_strategies_failed")]
    ELSE [t EXCEPT !.i = @ + 1, !.retry = FALSE, !.state = "running"]

\* a coroutine that has not started, and one whose result has been taken
NewTask(u) == [i |-> 1, retry |-> FALSE, url |-> u, state |-> "running", result |-> None]
Consumed(u) == [NewTask(u) EXCEPT !.state = "consumed"]

\* lines 192-207: the first events; as_completed schedules the coroutines
BatchStart ==
    /\ bpc = "init"
    /\ events' = <<[event |-> "started", total |-> Len(urls)],
                   [event |-> "wave1_started"]>>
    /\ wget_tasks' = [u \in UrlSet |-> NewTask(u)]
    /\ bpc' = "wave1"
    /\ UNCHANGED <<hung, wget_results_map, matches, failed_sites, failed_count, idx,
                   wpc, scrape_result, raised, ai_calls>>

\* one _smart_mirror call of the coroutine of u ends with outcome o
\* (wget_scraper.py lines 150-218 and 229-403); a wget strategy other than
\* 'minimal' that times out is retried once as 'minimal' inside the call
SmartMirror(u, o) ==
    /\ bpc = "wave1"
    /\ wget_tasks[u].state = "running"
    /\ LET t == wget_tasks[u]
           strategy == IF t.retry THEN "minimal" ELSE strategies[t.i]
           error == SmartMirrorError(o, strategy) IN
       wget_tasks' = [wget_tasks EXCEPT ![u] =
           IF o = "timeout" /\ strategy \notin {"minimal", "curl"}
           THEN [t EXCEPT !.retry = TRUE]
           ELSE IF o = "success"
           THEN [t EXCEPT !.state = "returned", !.result = WgetSuccess(t.url)]
           ELSE IF t.i = 2 /\ error \in AlternativeUrlErrors
           THEN [t EXCEPT !.state = "resolving"]
           ELSE NextStrategy(t)]
    /\ UNCHANGED <<bpc, hung, wget_results_map, events, matches, failed_sites,
                   failed_count, idx, wpc, scrape_result, raised, ai_calls>>

\* lines 209-213 of wget_scraper.py: find_working_url after the second
\* strategy failed on a connection error; it runs outside any try block and
\* an exception of it ("raise") ends the coroutine
WgetFindWorkingUrl(u, a) ==
    /\ bpc = "wave1"
    /\ wget_tasks[u].state = "resolving"
    /\ wget_tasks' = [wget_tasks EXCEPT ![u] =
           IF a = "raise" THEN [@ EXCEPT !.state = "raised"]
           ELSE NextStrategy([@ EXCEPT !.url = a])]
    /\ UNCHANGED <<bpc, hung, wget_results_map, events, matches, failed_sites,
                   failed_count, idx, wpc, scrape_result, raised, ai_calls>>

\* lines 212-273 of analyze_stream.py: the generator takes a finished
\* coroutine, in completion order, and yields its wave1_progress event
Wave1Progress(u) ==
    /\ bpc = "wave1"
    /\ wget_tasks[u].state \in {"returned", "raised"}
    /\ LET t == wget_tasks[u] IN
       IF t.state = "returned"
       THEN /\ wget_results_map' =
                   [k \in DOMAIN wget_results_map \cup {t.result.url} |->
                       IF k = t.result.url THEN t.result ELSE wget_results_map[k]]
            /\ events' = Append(events,
                   [event |-> "wave1_progress", url |-> t.result.url,
                    status |-> IF t.result.success THEN "success" ELSE "failed"])
       ELSE /\ events' = Append(events, [event |-> "wave1_progress", status |-> "error"])
            /\ UNCHANGED wget_results_map
    /\ wget_tasks' = [wget_tasks EXCEPT ![u] = Consumed(u)]
    /\ UNCHANGED <<bpc, hung, matches, failed_sites, failed_count, idx, wpc,
                   scrape_result, raised, ai_calls>>

\* lines 275-288 and 417-426: Wave 1 is over; the processing coroutines are
\* created and the first one is awaited
Wave1Complete ==
    /\ bpc = "wave1"
    /\ \A u \in UrlSet : wget_tasks[u].state = "consumed"
    /\ events' = events \o <<[event |-> "wave1_complete"], [event |-> "wave2_started"]>>
    /\ bpc' = "wave2"
    /\ idx' = 1
    /\ wpc' = "enter"
    /\ UNCHANGED <<hung, wget_tasks, wget_results_map, matches, failed_sites,
                   failed_count, scrape_result, raised, ai_calls>>

-----------------------------------------------------------------------------
(* stream_analysis_progress: Wave 2, process_competitor_with_ai *)

\* line 421: wget_results_map.get(url, {...})
WgetResultFor(u) ==
    IF u \in DOMAIN wget_results_map THEN wget_results_map[u]
    ELSE WgetResult(FALSE, u, "no wget result")

\* line 298: the progressive timeout of the fallback
FallbackTimeout(n) == IF n < 10 THEN 30 ELSE IF n < 20 THEN 20 ELSE 10

\* FallbackOutcomes when no await of the fallback is bounded by a timeout
FallbackOutcomes_NoTimeout(u) ==
    IF u \in hung THEN {}
    ELSE {"success", "extraction_failed", "failed", "raise"}

\* lines 303-311: how wait_for(scrape_intelligent(url), timeout) can end: the
\* call returns a dictionary with status 'success', 'extraction_failed' or
\* 'failed', it raises, or the timeout expires first. For a site that never
\* answers the call can only fail on the timeouts of its layers, if the
\* timeout of wait_for does not expire before.
FallbackOutcomes(u) ==
    IF u \in hung THEN {"failed", "timeout"}
    ELSE {"success", "extraction_failed", "failed", "raise", "timeout"}

\* the error message of a fallback that did not return status 'success'
FallbackError(o, n) ==
    CASE o = "timeout" -> "Timeout dopo " \o Str(FallbackTimeout(n)) \o "s"
      [] o = "failed" -> "All scraping methods failed"
      [] o = "raise" -> "exception"
      [] OTHER -> "Fallback failed"

\* lines 313-329 and 396-415: the URL is recorded as failed and the coroutine
\* returns None; the generator yields nothing for it (lines 429-435) and
\* awaits the next coroutine
RecordFailed(u, error) ==
    /\ failed_count' = failed_count + 1
    /\ failed_sites' = Append(failed_sites, [url |-> u, error |-> error])
    /\ idx' = idx + 1
    /\ wpc' = "enter"
    /\ scrape_result' = None
    /\ UNCHANGED <<events, matches>>

\* lines 294-296: the coroutine of urls[idx] starts with its wget result
ProcessCompetitor ==
    /\ bpc = "wave2" /\ idx <= Len(urls) /\ wpc = "enter"
    /\ scrape_result' = WgetResultFor(urls[idx])
    /\ wpc' = IF WgetResultFor(urls[idx]).success THEN "classify" ELSE "fallback"
    /\ UNCHANGED <<bpc, hung, wget_tasks, wget_results_map, events, matches,
                   failed_sites, failed_count, idx, raised, ai_calls>>

\* lines 301-329: the fallback through scrape_intelligent ends with outcome o
Fallback(o) ==
    /\ bpc = "wave2" /\ wpc = "fallback"
    /\ o \in FallbackOutcomes(urls[idx])
    /\ IF o = "success"
       THEN /\ scrape_result' = HybridSuccess(urls[idx])
            /\ wpc' = "classify"
            /\ UNCHANGED <<events, matches, failed_sites, failed_count, idx, raised>>
       ELSE /\ RecordFailed(urls[idx], FallbackError(o, failed_count))
            /\ raised' = IF o = "raise" THEN raised \cup {urls[idx]} ELSE raised
    /\ UNCHANGED <<bpc, hung, wget_tasks, wget_results_map, ai_calls>>

\* history: the text acquired by the layer that produced scrape_result
Acquired_text(r) == IF "full_text" \in DOMAIN r THEN r.full_text ELSE r.text

\* lines 331-394 and 429-437: classification and construction of the match,
\* then the progress and result events of the generator; "raise" is an
\* exception in these lines (lines 396-415)
Classify(o) ==
    /\ bpc = "wave2" /\ wpc = "classify"
    /\ LET full_text == Or(DictGet(scrape_result, "text", ""),
                           DictGet(scrape_result, "content", "")) IN
       ai_calls' = Append(ai_calls,
           [competitor_url |-> urls[idx], competitor_content |-> full_text,
            h_acquired |-> Acquired_text(scrape_result)])
    /\ IF o = "ok"
       THEN /\ events' = events \o <<[event |-> "progress", url |-> urls[idx], current |-> idx,
                                      percentage |-> PercentageOfUrls[idx]],
                                     [event |-> "result", url |-> urls[idx]]>>
            /\ matches' = Append(matches, [url |-> urls[idx]])
            /\ idx' = idx + 1
            /\ wpc' = "enter"
            /\ scrape_result' = None
            /\ UNCHANGED <<failed_sites, failed_count, raised>>
       ELSE /\ RecordFailed(urls[idx], "exception")
            /\ raised' = raised \cup {urls[idx]}
    /\ UNCHANGED <<bpc, hung, wget_tasks, wget_results_map>>

\* Complete when the summary raises: the error event of lines 532-546
Complete_Error ==
    /\ bpc = "wave2" /\ idx > Len(urls)
    /\ events' = Append(events, [event |-> "error"])
    /\ bpc' = "end"
    /\ UNCHANGED <<hung, wget_tasks, wget_results_map, matches, failed_sites,
                   failed_count, idx, wpc, scrape_result, raised, ai_calls>>

\* lines 448-530: every coroutine has been awaited; the complete event
Complete ==
    /\ bpc = "wave2" /\ idx > Len(urls)
    /\ events' = Append(events,
           [event |-> "complete", matches |-> matches, failed_sites |-> failed_sites,
            failed_count |-> Len(failed_sites)])
    /\ bpc' = "end"
    /\ UNCHANGED <<hung, wget_tasks, wget_results_map, matches, failed_sites,
                   failed_count, idx, wpc, scrape_result, raised, ai_calls>>

\* a batch for urls; at most one of the sites never answers
InitBatch ==
    /\ CacheInit /\ ScrapeIdle /\ PercentIdle /\ ResolverIdle /\ ClassifyIdle /\ PoolIdle /\ WgetIdle
    /\ bpc = "init"
    /\ hung \in {{}} \cup {{u} : u \in UrlSet}
    /\ wget_tasks = <<>>
    /\ wget_results_map = <<>>
    /\ events = <<>>
    /\ matches = <<>>
    /\ failed_sites = <<>>
    /\ failed_count = 0
    /\ idx = 0
    /\ wpc = "none"
    /\ scrape_result = None
    /\ raised = {}
    /\ ai_calls = <<>>

NextBatch ==
    \/ BatchStart /\ UNCHANGED <<cacheVars, scrapeVars, percentVars, resolverVars, classifyVars, poolVars, wgetVars>>
    \/ \E u \in UrlSet : \E o \in SmartMirrorOutcomes(u) :
           SmartMirror(u, o) /\ UNCHANGED <<cacheVars, scrapeVars, percentVars, resolverVars, classifyVars, poolVars, wgetVars>>
    \/ \E u \in UrlSet : \E a \in WgetFindWorkingUrlOutcomes(u) \cup {"raise"} :
           WgetFindWorkingUrl(u, a) /\ UNCHANGED <<cacheVars, scrapeVars, percentVars, resolverVars, classifyVars, poolVars, wgetVars>>
    \/ \E u \in UrlSet : Wave1Progress(u) /\ UNCHANGED <<cacheVars, scrapeVars, percentVars, resolverVars, classifyVars, poolVars, wgetVars>>
    \/ Wave1Complete /\ UNCHANGED <<cacheVars, scrapeVars, percentVars, resolverVars, classifyVars, poolVars, wgetVars>>
    \/ ProcessCompetitor /\ UNCHANGED <<cacheVars, scrapeVars, percentVars, resolverVars, classifyVars, poolVars, wgetVars>>
    \/ \E o \in {"success", "extraction_failed", "failed", "raise", "timeout"} :
           Fallback(o) /\ UNCHANGED <<cacheVars, scrapeVars, percentVars, resolverVars, classifyVars, poolVars, wgetVars>>
    \/ \E o \in {"ok", "raise"} : Classify(o) /\ UNCHANGED <<cacheVars, scrapeVars, percentVars, resolverVars, classifyVars, poolVars, wgetVars>>
    \/ Complete /\ UNCHANGED <<cacheVars, scrapeVars, percentVars, resolverVars, classifyVars, poolVars, wgetVars>>

SpecBatch == InitBatch /\ [][NextBatch]_vars

\* the event loop runs every coroutine that can go on and lets every timeout
\* expire
SpecBatchFair == SpecBatch /\ WF_vars(NextBatch)

-----------------------------------------------------------------------------
(* BrowserPool of core/browser_pool.py, await by await *)

\* BrowserPool(pool_size=3, max_requests_per_session=8) at line 367, scaled
pool_size == 2
max_requests_per_session == 2

\* browsers launched in one run, operations started in one run
MaxBrowsers == 3
MaxPoolCalls == 4

\* how _create_session (lines 110-155) can end: a session; BlockingIOError or
\* another exception of chromium.launch; an exception of browser.new_context,
\* raised when the browser is already running
CreateOutcomes == {"ok", "blocking", "error", "context_error"}

\* lines 94-101, with 'except BlockingIOError' as the only handler
InitializeCatches_OnlyBlocking(o) == o = "blocking"

\* lines 94-101: the failures of _create_session the loop of initialize handles
InitializeCatches(o) == o \in {"blocking", "error", "context_error"}

\* lengths of page.content() around the two thresholds (len < 500 at line 237
\* of browser_pool.py, len > 500 at line 344 of hybrid_scraper_v2.py)
PageLens == {499, 500, 501}

\* a browser that chromium.launch has started, for initialize or for
\* _renew_session, with the fields of the BrowserSession made for it (lines
\* 148-155) and the number of calls of its close()
NewBrowser(h) == [is_healthy |-> TRUE, request_count |-> 0, closes |-> 0, by |-> h]

InPool(ss, b) == \E j \in 1..Len(ss) : ss[j] = b

\* lines 167-173: the healthy session with the fewest requests, the first of
\* them in pool order; 0 when no session is healthy
BestSession(ss, bs) ==
    LET healthy == {j \in 1..Len(ss) : bs[ss[j]].is_healthy} IN
        IF healthy = {} THEN 0
        ELSE ss[CHOOSE j \in healthy :
                    \A m \in healthy :
                        \/ bs[ss[j]].request_count < bs[ss[m]].request_count
                        \/ (bs[ss[j]].request_count = bs[ss[m]].request_count /\ j <= m)]

\* line 322: the snapshot of the unhealthy sessions
UnhealthySessions(ss, bs) == SelectSeq(ss, LAMBDA b : ~bs[b].is_healthy)

\* a coroutine's operation is over with value r; its other locals are gone
Done(cr, r) ==
    [IdleCaller EXCEPT !.op = cr.op, !.pc = "done", !.ret = r, !.session = cr.session,
                       !.page = cr.page]

\* scrape_with_session without its finally block
ClosePage_Never(pg) == pg

\* lines 246-251: 'finally: if page: await page.close()'
ClosePage(pg) == IF pg = "open" THEN "closed" ELSE pg

\* the value a rendered fetch ends with, for _scrape_with_browser_pool
\* (lines 326-372) and for analyze_site (lines 122-134 of ai_site_analyzer.py)
FetchEnds(cr, o) ==
    IF cr.op = "render" THEN Done(cr, BrowserPoolResult(o))
    ELSE Done(cr, [outcome |-> o.kind])

\* lines 161-195 of get_session, from 'if not self.sessions' on, in a pool
\* whose sessions are ss and whose browsers are bs: None, the best session
\* with its request_count incremented, or the start of a recovery pass
SelectSession(c, ss, bs, cr) ==
    IF ss = <<>>
    THEN /\ browsers' = bs
         /\ callers' = [callers EXCEPT ![c] =
                IF cr.op = "render" THEN FetchEnds(cr, [kind |-> "no_session"])
                ELSE Done(cr, [outcome |-> "raised"])]
    ELSE LET best_session == BestSession(ss, bs) IN
         IF best_session = 0
         THEN /\ browsers' = bs
              /\ callers' = [callers EXCEPT ![c] =
                     [cr EXCEPT !.pc = "close_old", !.unhealthy = UnhealthySessions(ss, bs),
                                !.k = 1, !.passes = @ + 1]]
         ELSE /\ bs[best_session].request_count <= max_requests_per_session
              /\ browsers' = [bs EXCEPT ![best_session].request_count = @ + 1]
              /\ callers' = [callers EXCEPT ![c] =
                     [cr EXCEPT !.pc = "new_page", !.session = best_session, !.attempt = 0,
                                !.unhealthy = <<>>, !.k = 0]]

\* initialize has returned: startup_event is over, get_session goes on
AfterInitialize(c, ss, bs, cr) ==
    IF cr.op = "initialize"
    THEN /\ browsers' = bs
         /\ callers' = [callers EXCEPT ![c] = Done(cr, [outcome |-> "returned"])]
    ELSE SelectSession(c, ss, bs, cr)

\* a coroutine can start an operation of a request: startup_event is over
\* (the application serves no request before), and the coroutine is free
CanStart(c) ==
    /\ callers[c].pc \in {"idle", "done"}
    /\ 0 < pool_calls /\ pool_calls < MaxPoolCalls
    /\ \A d \in Callers : callers[d].op = "initialize" => callers[d].pc = "done"

\* startup_event (main.py lines 47-55) calls initialize (lines 73-80)
Initialize(c) ==
    /\ pool_calls = 0
    /\ pool_calls' = pool_calls + 1
    /\ callers' = [callers EXCEPT ![c] =
           IF is_initialized
           THEN Done([IdleCaller EXCEPT !.op = "initialize"], [outcome |-> "returned"])
           ELSE [IdleCaller EXCEPT !.op = "initialize", !.pc = "pw_start"]]
    /\ UNCHANGED <<sessions, browsers, playwright_instance, is_initialized, notPoolVars>>

\* analyze_site calls get_session (ai_site_analyzer.py line 123), which calls
\* initialize when the pool is not initialized (lines 161-162)
AnalyzeSite(c) ==
    /\ CanStart(c)
    /\ pool_calls' = pool_calls + 1
    /\ LET cr == [IdleCaller EXCEPT !.op = "analyze_site"] IN
       IF ~is_initialized
       THEN /\ callers' = [callers EXCEPT ![c] = [cr EXCEPT !.pc = "pw_start"]]
            /\ UNCHANGED browsers
       ELSE SelectSession(c, sessions, browsers, cr)
    /\ UNCHANGED <<sessions, playwright_instance, is_initialized, notPoolVars>>

\* _scrape_with_browser_pool (hybrid_scraper_v2.py lines 311-334): the check of
\* is_initialized, then get_session
ScrapeWithBrowserPool(c) ==
    /\ CanStart(c)
    /\ pool_calls' = pool_calls + 1
    /\ LET cr == [IdleCaller EXCEPT !.op = "render"] IN
       IF ~is_initialized
       THEN /\ callers' = [callers EXCEPT ![c] = Done(cr, PoolNotInitialized)]
            /\ UNCHANGED browsers
       ELSE SelectSession(c, sessions, browsers, cr)
    /\ UNCHANGED <<sessions, playwright_instance, is_initialized, notPoolVars>>

\* lines 80-90: async_playwright().start() has ended
PlaywrightStart(c, o) ==
    /\ callers[c].pc = "pw_start"
    /\ IF o = "ok"
       THEN /\ playwright_instance' = TRUE
            /\ callers' = [callers EXCEPT ![c] = [@ EXCEPT !.pc = "create", !.i = 0]]
            /\ UNCHANGED <<browsers, is_initialized>>
       ELSE /\ is_initialized' = FALSE
            /\ AfterInitialize(c, sessions, browsers, callers[c])
            /\ UNCHANGED playwright_instance
    /\ UNCHANGED <<sessions, pool_calls, notPoolVars>>

\* lines 89-108: _create_session of iteration i has ended; after the last
\* iteration, or after BlockingIOError, is_initialized is set
CreateSession(c, o) ==
    /\ callers[c].pc = "create"
    /\ o \in {"ok", "context_error"} => Len(browsers) < MaxBrowsers
    /\ LET cr == callers[c]
           bs == IF o \in {"ok", "context_error"}
                 THEN Append(browsers, NewBrowser("initialize"))
                 ELSE browsers
           ss == IF o = "ok" THEN Append(sessions, Len(bs)) ELSE sessions IN
       /\ sessions' = ss
       /\ IF o # "ok" /\ ~InitializeCatches(o)
          THEN /\ browsers' = bs
               /\ callers' = [callers EXCEPT ![c] =
                      IF cr.op = "render"
                      THEN FetchEnds(cr, [kind |-> "exception", msg |-> "launch failed"])
                      ELSE Done(cr, [outcome |-> "raised"])]
               /\ UNCHANGED is_initialized
          ELSE IF o = "blocking" \/ cr.i + 1 = pool_size
          THEN /\ is_initialized' = (Len(ss) # 0)
               /\ AfterInitialize(c, ss, bs, cr)
          ELSE /\ browsers' = bs
               /\ callers' = [callers EXCEPT ![c] = [cr EXCEPT !.i = @ + 1]]
               /\ UNCHANGED is_initialized
    /\ UNCHANGED <<pool_calls, playwright_instance, notPoolVars>>

\* _recover_unhealthy_sessions goes to the next session of its snapshot, and
\* after the last one get_session calls itself (lines 324-328 and 180-181)
NextRenewal(c, ss, bs, cr) ==
    /\ sessions' = ss
    /\ IF cr.k < Len(cr.unhealthy)
       THEN /\ browsers' = bs
            /\ callers' = [callers EXCEPT ![c] = [cr EXCEPT !.k = @ + 1, !.pc = "close_old"]]
       ELSE SelectSession(c, ss, bs, cr)

\* lines 304 and 314-318 of _renew_session: old_session.browser.close() has
\* ended; when it raised, the old session is removed from the pool
CloseOld(c, o) ==
    /\ callers[c].pc = "close_old"
    /\ LET cr == callers[c]
           old_session == cr.unhealthy[cr.k]
           bs == [browsers EXCEPT ![old_session].closes = @ + 1] IN
       IF o = "ok"
       THEN /\ browsers' = bs
            /\ callers' = [callers EXCEPT ![c] = [cr EXCEPT !.pc = "renew_create"]]
            /\ UNCHANGED sessions
       ELSE NextRenewal(c, WithoutU(sessions, old_session), bs, cr)
    /\ UNCHANGED <<pool_calls, playwright_instance, is_initialized, notPoolVars>>

\* lines 307-318 of _renew_session: _create_session has ended; the new session
\* takes the place of the old one, and when sessions.index raises or the
\* creation failed the old session is removed if it is still in the pool
RenewCreate(c, o) ==
    /\ callers[c].pc = "renew_create"
    /\ o \in {"ok", "context_error"} => Len(browsers) < MaxBrowsers
    /\ LET cr == callers[c]
           old_session == cr.unhealthy[cr.k]
           bs == IF o \in {"ok", "context_error"}
                 THEN Append(browsers, NewBrowser("renew"))
                 ELSE browsers
           ss == IF o = "ok" /\ InPool(sessions, old_session)
                 THEN [j \in 1..Len(sessions) |->
                          IF sessions[j] = old_session THEN Len(bs) ELSE sessions[j]]
                 ELSE WithoutU(sessions, old_session) IN
       NextRenewal(c, ss, bs, cr)
    /\ UNCHANGED <<pool_calls, playwright_instance, is_initialized, notPoolVars>>

\* lines 199-206 and 245-248 of scrape_with_session: session.context.new_page()
\* has ended; when it raised, the session is marked unhealthy and "" returned
NewPage(c, o) ==
    /\ callers[c].pc = "new_page"
    /\ LET cr == callers[c] IN
       IF o = "ok"
       THEN /\ callers' = [callers EXCEPT ![c] = [cr EXCEPT !.pc = "goto", !.page = "open"]]
            /\ UNCHANGED browsers
       ELSE /\ browsers' = [browsers EXCEPT ![cr.session].is_healthy = FALSE]
            /\ callers' = [callers EXCEPT ![c] = FetchEnds(cr, [kind |-> "content", len |-> 0])]
    /\ UNCHANGED <<sessions, pool_calls, playwright_instance, is_initialized, notPoolVars>>

\* lines 212-227 and 245-251 of scrape_with_session: a page.goto has ended; a
\* failed navigation is tried again, the third failure marks the session
\* unhealthy and returns "" after the page is closed
Goto(c, o) ==
    /\ callers[c].pc = "goto"
    /\ LET cr == callers[c] IN
       IF o = "ok"
       THEN /\ callers' = [callers EXCEPT ![c] = [cr EXCEPT !.pc = "content"]]
            /\ UNCHANGED browsers
       ELSE IF cr.attempt < 2
       THEN /\ callers' = [callers EXCEPT ![c] = [cr EXCEPT !.attempt = @ + 1]]
            /\ UNCHANGED browsers
       ELSE /\ browsers' = [browsers EXCEPT ![cr.session].is_healthy = FALSE]
            /\ callers' = [callers EXCEPT ![c] =
                   FetchEnds([cr EXCEPT !.page = ClosePage(@)], [kind |-> "content", len |-> 0])]
    /\ UNCHANGED <<sessions, pool_calls, playwright_instance, is_initialized, notPoolVars>>

\* lines 229-251: page.content() has returned l characters; the page is closed
Content(c, l) ==
    /\ callers[c].pc = "content"
    /\ browsers' = IF l < 500 THEN [browsers EXCEPT ![callers[c].session].is_healthy = FALSE]
                   ELSE browsers
    /\ callers' = [callers EXCEPT ![c] =
           FetchEnds([@ EXCEPT !.page = ClosePage(@)], [kind |-> "content", len |-> l])]
    /\ UNCHANGED <<sessions, pool_calls, playwright_instance, is_initialized, notPoolVars>>

\* lines 337-340 and 358-364 of hybrid_scraper_v2.py: wait_for gives up after
\* 15 s and cancels scrape_with_session, whose 'except Exception' handlers do
\* not catch the CancelledError and whose finally block closes the page
Timeout(c) ==
    /\ callers[c].op = "render"
    /\ callers[c].pc \in {"new_page", "goto", "content"}
    /\ callers' = [callers EXCEPT ![c] =
           FetchEnds([@ EXCEPT !.page = ClosePage(@)], [kind |-> "timeout"])]
    /\ UNCHANGED <<sessions, browsers, pool_calls, playwright_instance, is_initialized,
                   notPoolVars>>

\* lines 356-364 of cleanup, once the loop over the sessions is over
AfterClear(c, cr) ==
    /\ sessions' = <<>>
    /\ IF playwright_instance
       THEN /\ callers' = [callers EXCEPT ![c] = [cr EXCEPT !.pc = "pw_stop"]]
            /\ UNCHANGED is_initialized
       ELSE /\ callers' = [callers EXCEPT ![c] = Done(cr, [outcome |-> "returned"])]
            /\ is_initialized' = FALSE

\* lines 345-351: cleanup starts to close the browsers of the pool
Cleanup(c) ==
    /\ CanStart(c)
    /\ pool_calls' = pool_calls + 1
    /\ LET cr == [IdleCaller EXCEPT !.op = "cleanup"] IN
       IF sessions = <<>>
       THEN AfterClear(c, cr)
       ELSE /\ callers' = [callers EXCEPT ![c] =
                   [cr EXCEPT !.pc = "closing", !.i = 1, !.session = sessions[1]]]
            /\ UNCHANGED <<sessions, is_initialized>>
    /\ UNCHANGED <<browsers, playwright_instance, notPoolVars>>

\* lines 349-354: session.browser.close() has ended; the loop goes on over the
\* list as it is now
CleanupClose(c) ==
    /\ callers[c].pc = "closing"
    /\ LET cr == callers[c] IN
       /\ browsers' = [browsers EXCEPT ![cr.session].closes = @ + 1]
       /\ IF cr.i + 1 <= Len(sessions)
          THEN /\ callers' = [callers EXCEPT ![c] =
                      [cr EXCEPT !.i = @ + 1, !.session = sessions[cr.i + 1]]]
               /\ UNCHANGED <<sessions, is_initialized>>
          ELSE AfterClear(c, cr)
    /\ UNCHANGED <<pool_calls, playwright_instance, notPoolVars>>

\* lines 358-364: playwright_instance.stop() has ended
PlaywrightStop(c) ==
    /\ callers[c].pc = "pw_stop"
    /\ is_initialized' = FALSE
    /\ callers' = [callers EXCEPT ![c] = Done(@, [outcome |-> "returned"])]
    /\ UNCHANGED <<sessions, browsers, pool_calls, playwright_instance, notPoolVars>>

InitPool ==
    /\ CacheInit /\ ScrapeIdle /\ BatchIdle /\ PercentIdle /\ ResolverIdle
    /\ ClassifyIdle /\ PoolIdle /\ WgetIdle

NextPool ==
    \/ \E c \in Callers : Initialize(c)
    \/ \E c \in Callers : AnalyzeSite(c)
    \/ \E c \in Callers : ScrapeWithBrowserPool(c)
    \/ \E c \in Callers, o \in {"ok", "fail"} : PlaywrightStart(c, o)
    \/ \E c \in Callers, o \in CreateOutcomes : CreateSession(c, o)
    \/ \E c \in Callers, o \in {"ok", "error"} : CloseOld(c, o)
    \/ \E c \in Callers, o \in CreateOutcomes : RenewCreate(c, o)
    \/ \E c \in Callers, o \in {"ok", "fail"} : NewPage(c, o)
    \/ \E c \in Callers, o \in {"ok", "fail"} : Goto(c, o)
    \/ \E c \in Callers, l \in PageLens : Content(c, l)
    \/ \E c \in Callers : Timeout(c)
    \/ \E c \in Callers : Cleanup(c)
    \/ \E c \in Callers : CleanupClose(c)
    \/ \E c \in Callers : PlaywrightStop(c)

SpecPool == InitPool /\ [][NextPool]_vars

-----------------------------------------------------------------------------
(* classify_competitor_status of api/upload_analyze.py *)

\* the scores the function is applied to: whole percentages
MaxScore == 100

\* lines 26-55: the dict returned for a score (category, colour and priority;
\* the labels follow the category)
classify_competitor_status(sc) ==
    IF sc >= 40
    THEN [category |-> "DIRECT", color |-> "green", priority |-> 1]
    ELSE IF sc >= 25
    THEN [category |-> "POTENTIAL", color |-> "yellow", priority |-> 2]
    ELSE [category |-> "NON_COMPETITOR", color |-> "red", priority |-> 3]

\* one call of the function
ClassifyStatus ==
    /\ classification = None
    /\ classification' = classify_competitor_status(score)
    /\ UNCHANGED score

\* the caller takes the next score
NextScore ==
    /\ classification # None
    /\ classification' = None
    /\ score' \in 0..MaxScore \ {score}

InitClassify ==
    /\ CacheInit /\ ScrapeIdle /\ BatchIdle /\ PercentIdle /\ ResolverIdle /\ PoolIdle /\ WgetIdle
    /\ score \in 0..MaxScore
    /\ classification = None

NextClassify ==
    \/ ClassifyStatus /\ UNCHANGED <<cacheVars, scrapeVars, batchVars, percentVars, resolverVars, poolVars, wgetVars>>
    \/ NextScore /\ UNCHANGED <<cacheVars, scrapeVars, batchVars, percentVars, resolverVars, poolVars, wgetVars>>

SpecClassify == InitClassify /\ [][NextClassify]_vars

-----------------------------------------------------------------------------
(* WgetScraper of core/wget_scraper.py: the scrape coroutines of Wave 1 *)

MaxBatch == 2   \* URLs of the batch
MaxPages == 1   \* pages one wget or curl process writes at most

\* URLs a batch is made of
WgetUrls == {"https://a.it", "https://www.a.it/shop", "https://b.it:8080"}

\* the batches: MaxBatch different URLs
Batches == {b \in [1..MaxBatch -> WgetUrls] : \A i, j \in 1..MaxBatch : b[i] = b[j] => i = j}

\* analyze_stream.py line 200: one job_id for the whole batch
job_id == "20260218_101500"

\* WgetScraper.get_domain
get_domain(u) ==
    IF UrlparseRaises(u) THEN "unknown_domain"
    ELSE LET domain == Split(Replace(Netloc(u), "www.", ""), ":")[1]
             name == Replace(domain, ".", "_")
         IN SubSeq(name, 1, IF Len(name) < 50 THEN Len(name) ELSE 50)

\* output_dir of _smart_mirror and of the cleanups of _smart_mirror_with_fallback
output_dir(u) == "/tmp/mirror_" \o job_id \o "/" \o get_domain(u)

\* glob.glob(f"{output_dir}/**/*.html") and *.htm
HtmlFiles(dir) == {f \in tmp_mirror : f.dir = dir}

\* WgetScraper._cleanup_directory: shutil.rmtree(directory)
_cleanup_directory(fs, directory) == {f \in fs : f.dir # directory}

\* environment: of the candidates of find_working_url only the first one, the
\* form with or without www, may answer
AlternativeUrls(u) == {u, Variants(u)[1]}

\* the result dictionaries; content is "words" (word_count > 0), "zero"
\* (word_count = 0, html_size > 0.5) or "tiny" (word_count = 0, smaller html)
MirrorSuccess(u, n, content, method) ==
    [success |-> TRUE, url |-> u, pages_count |-> n, content |-> content,
     error |-> "", method |-> method]
MirrorFailure(u, error, method) ==
    [success |-> FALSE, url |-> u, pages_count |-> 0, content |-> "none",
     error |-> error, method |-> method]

\* the coroutine scrape(url, job_id) at its first await: _smart_mirror has
\* created the directory and started the process of the first strategy
\* (lines 229-324)
NewScrape(u) ==
    [pc |-> "communicate", url |-> u, output_dir |-> output_dir(u), i |-> 1,
     strategy |-> "default", written |-> 0, deep |-> FALSE, first |-> None,
     result |-> None]

\* the coroutine has returned r
ScrapeDone(r) ==
    [pc |-> "done", url |-> r.url, output_dir |-> "", i |-> 0, strategy |-> "none",
     written |-> 0, deep |-> FALSE, first |-> None, result |-> r]

\* the process of scrape t writes a page into its output directory
WgetWrites(t) ==
    LET s == scrapes[t] IN
    /\ s.pc = "communicate"
    /\ s.written < MaxPages
    /\ tmp_mirror' = tmp_mirror \cup
           {[dir |-> s.output_dir, by |-> t, page |-> s.written + 1]}
    /\ scrapes' = [scrapes EXCEPT ![t].written = s.written + 1]
    /\ UNCHANGED batch_urls

\* lines 155-217: _smart_mirror_with_fallback when _smart_mirror has returned
\* r and its finally has left the files fs; a failure of the second strategy
\* with a connection error asks find_working_url for another URL
AfterMirror(t, r, fs) ==
    LET s == scrapes[t] IN
    IF s.deep
    THEN /\ tmp_mirror' = fs
         /\ scrapes' = [scrapes EXCEPT ![t] =
                IF r.success /\ r.content = "words"
                THEN ScrapeDone([r EXCEPT !.method = "deep"])
                ELSE [s EXCEPT !.pc = "playwright", !.deep = FALSE, !.written = 0]]
    ELSE IF r.success
    THEN CASE r.content = "zero" ->
                /\ tmp_mirror' = _cleanup_directory(fs, s.output_dir)
                /\ scrapes' = [scrapes EXCEPT ![t] =
                       [s EXCEPT !.pc = "communicate", !.strategy = "deep", !.deep = TRUE,
                                 !.first = r, !.written = 0]]
           [] r.content = "tiny" ->
                /\ tmp_mirror' = fs
                /\ scrapes' = [scrapes EXCEPT ![t] =
                       [s EXCEPT !.pc = "playwright", !.first = r, !.written = 0]]
           [] OTHER ->
                /\ tmp_mirror' = fs
                /\ scrapes' = [scrapes EXCEPT ![t] = ScrapeDone(r)]
    ELSE LET error == Lower(r.error)
             asked == s.i = 2 /\ (Contains(error, "ssl") \/ Contains(error, "connect"))
         IN \E u \in (IF asked THEN AlternativeUrls(s.url) ELSE {s.url}) :
                /\ tmp_mirror' = _cleanup_directory(fs, output_dir(u))
                /\ scrapes' = [scrapes EXCEPT ![t] =
                       IF s.i = Len(strategies)
                       THEN ScrapeDone(MirrorFailure(u, "all_strategies_failed", "none"))
                       ELSE [s EXCEPT !.pc = "communicate", !.url = u,
                                      !.output_dir = output_dir(u), !.i = s.i + 1,
                                      !.strategy = strategies[s.i + 1], !.written = 0]]

\* lines 326-343 and 365-372: the process does not end in time and is killed;
\* a wget run other than 'minimal' is followed by a 'minimal' run in the same
\* directory, the other runs return a failure through the finally
MirrorTimeout(t) ==
    LET s == scrapes[t] IN
    /\ s.pc = "communicate"
    /\ IF s.strategy \notin {"minimal", "curl"}
       THEN /\ scrapes' = [scrapes EXCEPT ![t].strategy = "minimal", ![t].written = 0]
            /\ UNCHANGED tmp_mirror
       ELSE AfterMirror(t,
                MirrorFailure(s.url, SmartMirrorError("timeout", s.strategy),
                              IF s.strategy = "curl" THEN "curl" ELSE "wget"),
                _cleanup_directory(tmp_mirror, s.output_dir))
    /\ UNCHANGED batch_urls

\* lines 374-403: the process has ended; the HTML files found in the
\* directory are read and the finally removes the directory, or, when there is
\* none, fallback_fetch is awaited
ProcessEnds(t, content) ==
    LET s == scrapes[t]
        html_files == HtmlFiles(s.output_dir) IN
    /\ s.pc = "communicate"
    /\ IF html_files = {}
       THEN /\ scrapes' = [scrapes EXCEPT ![t].pc = "fallback_fetch"]
            /\ UNCHANGED tmp_mirror
       ELSE AfterMirror(t,
                MirrorSuccess(s.url, Cardinality(html_files), content, "wget_mirror"),
                _cleanup_directory(tmp_mirror, s.output_dir))
    /\ UNCHANGED batch_urls

\* lines 405-441 and 401-403: fallback_fetch returns and the finally of
\* _smart_mirror removes the directory
FallbackFetchReturns(t, o) ==
    LET s == scrapes[t] IN
    /\ s.pc = "fallback_fetch"
    /\ AfterMirror(t,
           IF o \in {"connect_error", "fetch_timeout"}
           THEN MirrorFailure(s.url, SmartMirrorError(o, s.strategy), "fallback_failed")
           ELSE MirrorSuccess(s.url, 1, o, "direct_fetch"),
           _cleanup_directory(tmp_mirror, s.output_dir))
    /\ UNCHANGED batch_urls

\* lines 168-195: _playwright_fallback returns; without words of its own the
\* result of the strategy is accepted
PlaywrightReturns(t, ok) ==
    LET s == scrapes[t] IN
    /\ s.pc = "playwright"
    /\ scrapes' = [scrapes EXCEPT ![t] =
           IF ok THEN ScrapeDone(MirrorSuccess(s.url, 1, "words", "playwright"))
           ELSE ScrapeDone(s.first)]
    /\ UNCHANGED <<batch_urls, tmp_mirror>>

notWgetVars == <<cacheVars, scrapeVars, batchVars, percentVars, resolverVars,
                 classifyVars, poolVars>>

\* analyze_stream.py lines 199-203: the scrape coroutines of the batch
InitWget ==
    /\ CacheInit /\ ScrapeIdle /\ BatchIdle /\ PercentIdle /\ ResolverIdle
    /\ ClassifyIdle /\ PoolIdle
    /\ batch_urls \in Batches
    /\ tmp_mirror = {}
    /\ scrapes = [t \in 1..MaxBatch |-> NewScrape(batch_urls[t])]

NextWget ==
    \/ \E t \in 1..MaxBatch : WgetWrites(t) /\ UNCHANGED notWgetVars
    \/ \E t \in 1..MaxBatch : MirrorTimeout(t) /\ UNCHANGED notWgetVars
    \/ \E t \in 1..MaxBatch : \E content \in {"words", "zero", "tiny"} :
           ProcessEnds(t, content) /\ UNCHANGED notWgetVars
    \/ \E t \in 1..MaxBatch : \E o \in {"words", "zero", "tiny", "connect_error", "fetch_timeout"} :
           FallbackFetchReturns(t, o) /\ UNCHANGED notWgetVars
    \/ \E t \in 1..MaxBatch : \E ok \in BOOLEAN : PlaywrightReturns(t, ok) /\ UNCHANGED notWgetVars

SpecWget == InitWget /\ [][NextWget]_vars

-----------------------------------------------------------------------------
(* Properties of scrape_intelligent *)

Range(q) == {q[i] : i \in 1..Len(q)}
Returns == pc # "done" /\ pc' = "done"
Invokes(layer) == Len(trace') = Len(trace) + 1 /\ trace'[Len(trace')] = layer

\* C1: a call for a URL for which an earlier call acquired and returned a
\* successful result (directly or through an alternative URL), made without
\* bypass, with the cache enabled, within the TTL and with no eviction in
\* between, returns the cached result and runs neither the fast nor the
\* rendered layer.
C1_SecondCallHitsCache ==
    [][(/\ Returns
        /\ cache_enabled
        /\ ~req.bypass_cache
        /\ lastOk # NoCall
        /\ lastOk.url = req.url)
       => (/\ ret'.h_via = "cache"
           /\ "basic" \notin Range(trace')
           /\ "render" \notin Range(trace'))]_vars

\* C2: the rendered fetch is never invoked in a call whose fast fetch has
\* returned a 2xx response with at least 1000 characters.
C2_NoRenderAfterSufficientFast ==
    (result # None /\ result.success /\ result.content_length >= 1000)
        => "render" \notin Range(trace)

\* a call has returned the result of a fast fetch of at least 1000 characters
C2_Witness ==
    /\ pc = "done" /\ result # None
    /\ result.success /\ result.content_length >= 1000
    /\ ret.h_via = "basic"

\* C3 (as claimed): a call whose fast fetch returned a 2xx response with fewer
\* than 1000 characters has invoked the rendered fetch when it returns,
\* whatever the state of the browser pool.
C3_RenderAlwaysAfterInsufficientFast ==
    (pc = "done" /\ result # None /\ result.success /\ result.content_length < 1000)
        => "render" \in Range(trace)

\* C3 (amended): a call whose fast fetch returned a 2xx response with fewer than
\* 1000 characters has invoked the rendered fetch when it returns, unless the
\* browser pool is not initialized at that moment and the fast content is not
\* empty (then the fast content is returned as it is).
C3_RenderAfterInsufficientFastIfPool ==
    [][(/\ Returns
        /\ result' # None /\ result'.success /\ result'.content_length < 1000)
       => (\/ "render" \in Range(trace')
           \/ (~is_initialized /\ result'.content_length > 0 /\ ret'.h_via = "basic_degraded"))]_vars

\* a call whose fast fetch was a short 2xx response has returned after a
\* rendered fetch
C3_Witness ==
    /\ pc = "done" /\ result # None
    /\ result.success /\ result.content_length < 1000
    /\ "render" \in Range(trace)
    /\ browser_result.method = "browser_pool"

\* C4: find_working_url is never invoked after a fast fetch that ended with an
\* HTTP 403 or an HTTP 404 response.
C4_NoResolverAfter403Or404 ==
    [][(result' # None /\ result'.h_status \in {403, 404})
        => (pc' # "resolve" /\ ~Invokes("resolver"))]_vars

\* a call whose fast fetch ended with HTTP 403 has gone on without
\* find_working_url
C4_Witness ==
    /\ pc \in {"validate", "render", "done"} /\ result # None
    /\ result.h_status = 403
    /\ "resolver" \notin Range(trace)

\* C5: find_working_url is invoked only after a fast fetch that failed with a
\* connectivity/TLS-class error (DNS failure, connection refused, TLS
\* handshake failure), never after a timeout or a non-2xx HTTP status.
C5_ResolverOnlyOnConnectivityErrors ==
    [][Invokes("resolver") => (~result.success /\ result.h_class \in {"tls", "refused", "dns"})]_vars

\* the dictionary differs from the one returned for sufficient content
MarkedDegraded(r) == r.data # KeywordsData(r.data.url, req.url, TRUE)

\* C8: a result returned with status 'success' was built from content of at
\* least 1000 raw characters, unless it is the last-resort result, which is
\* marked so that the caller can tell it apart.
C8_SuccessMeansSufficientOrMarked ==
    (pc = "done" /\ ret.data.status = "success" /\ ret.h_via # "cache")
        => (ret.h_len >= 1000 \/ (ret.h_via = "basic_degraded" /\ MarkedDegraded(ret)))

\* the step stores an entry under key k: k enters the cache, or the entry of k
\* gets a new insertion time
Written(k) ==
    /\ k \in Keys(cache')
    /\ k \notin Keys(cache) \/ EntryOf(cache', k).ts # EntryOf(cache, k).ts

\* C11: a step of scrape_intelligent stores a cache entry only when the call
\* returns the result of the fast layer with at least 1000 characters or the
\* result of the rendered layer, and only under the key of the effective URL;
\* a call that returns failed, or returns the last-resort result of a short
\* fast fetch, leaves the cache as it is.
C11_CacheWrittenOnlyOnSuccessUnderEffectiveUrl ==
    [][/\ \A u \in {"https://a.it", "https://www.a.it"} :
            Written(_get_url_hash(u)) =>
                /\ Returns
                /\ \/ ret'.h_via = "basic" /\ result.success /\ result.content_length >= 1000
                   \/ ret'.h_via = "browser_pool" /\ browser_result'.success
                /\ u = url
       /\ (Returns /\ ret'.h_via \in {"none", "basic_degraded"}) => cache' = cache]_vars

\* a call whose fast fetch succeeded on the alternative URL has returned and
\* its result is cached under the key of the alternative URL only
C11_Witness ==
    /\ pc = "done" /\ ret.h_via = "basic"
    /\ url # req.url
    /\ Keys(cache) = {_get_url_hash(url)}

\* the sequences of layers one call may have started: an optional cache
\* lookup, then the fast fetch, then optionally the resolver with an optional
\* retry of the fast fetch, then optionally the rendered fetch
LayerOrders ==
    LET after_lookup ==
            {<<>>, <<"basic">>, <<"basic", "resolver">>, <<"basic", "resolver", "basic">>,
             <<"basic", "render">>, <<"basic", "resolver", "render">>,
             <<"basic", "resolver", "basic", "render">>}
    IN after_lookup \cup {<<"cache">> \o t : t \in after_lookup}

\* C14: within one call the layers start in the order cache lookup, fast
\* fetch, find_working_url, at most one retry of the fast fetch, rendered
\* fetch; find_working_url runs only when a fast fetch has returned a failure,
\* and the rendered fetch only when the last fast fetch of the call has
\* returned.
C14_LayersRunInOrder ==
    /\ trace \in LayerOrders
    /\ pc = "resolve" => (result # None /\ ~result.success /\ attempt = 0)
    /\ "render" \in Range(trace) => (result # None /\ attempt = 0 /\ pc \in {"render", "done"})
    /\ pc = "render" => trace[Len(trace)] = "render"

\* a call has gone through every layer: lookup, fast fetch, resolver, retry,
\* rendered fetch
C14_Witness ==
    /\ pc = "done"
    /\ trace = <<"cache", "basic", "resolver", "basic", "render">>

\* how many times the call under way has invoked a layer
TimesInvoked(layer) == Cardinality({i \in 1..Len(trace) : trace[i] = layer})

\* C26: one scrape_intelligent call invokes find_working_url at most once,
\* _scrape_basic at most twice, the second time only after find_working_url
\* has returned a URL different from the requested one, and the rendered fetch
\* at most once; a _scrape_basic call makes at most three connection attempts.
C26_BoundedInvocationsPerCall ==
    /\ TimesInvoked("resolver") <= 1
    /\ TimesInvoked("basic") <= 2
    /\ TimesInvoked("render") <= 1
    /\ (TimesInvoked("basic") = 2 \/ pc = "retry_fast") =>
           /\ TimesInvoked("resolver") = 1
           /\ url # req.url
    /\ attempt \in 0..2
    /\ attempt > 0 => pc \in {"fast", "retry_fast"}

\* the retry of the fast fetch, on the alternative URL, is at its third
\* connection attempt
C26_Witness ==
    /\ pc = "retry_fast"
    /\ attempt = 2
    /\ TimesInvoked("basic") = 2
    /\ url # req.url

\* C18: _scrape_basic stops at the first connection strategy that obtains an
\* HTTP response, 2xx or not: whatever response the attempt under way receives,
\* the attempt ends the fetch with a result and no further strategy is tried.
C18_AnyHttpResponseEndsFastFetch ==
    pc \in {"fast", "retry_fast"} =>
        \A o \in AttemptOutcomes : o.kind = "http" => BasicStep(attempt, o) # None

\* C19: every fault ends a layer with a result, never with an exception: a
\* failed result of _scrape_basic or of _scrape_with_browser_pool carries a
\* non-empty error, and the dictionary scrape_intelligent returns has status
\* 'success', 'failed' or 'extraction_failed'.
C19_LayersReturnFailuresWithError ==
    /\ (result # None /\ ~result.success) => result.error # ""
    /\ (browser_result # None /\ ~browser_result.success) => browser_result.error # ""
    /\ pc = "done" =>
           /\ ret # None
           /\ ret.data.status \in {"success", "failed", "extraction_failed"}

\* a call has returned 'failed' after a timeout of the fast fetch (an exception
\* whose message is empty) and a rendered fetch that found no session
C19_Witness ==
    /\ pc = "done" /\ ret.data.status = "failed"
    /\ result.h_class = "timeout" /\ result.error = "TimeoutError: Unknown error"
    /\ browser_result.error = "Browser pool not available"

\* C20: one call of find_working_url sends at most 60 HEAD requests, whatever
\* the original URL and also when no candidate answers.
C20_AtMost60Probes ==
    Len(probes) <= 60

\* a call for which more than 60 candidates were generated has returned the
\* original URL after 60 requests, none of which was accepted
C20_Witness ==
    /\ fpc = "returned"
    /\ Len(variants) > 60
    /\ Len(probes) = 60
    /\ working_url = fw_original_url
    /\ fw_original_url \notin Range(probes)

\* C21: find_working_url probes the candidates in generation order and returns
\* the first one whose HEAD request answers 200 or 503; when no probed
\* candidate is accepted, or when an error occurs while the candidates are
\* generated or probed, it returns the original URL; it never raises.
C21_FirstAcceptedCandidateOrOriginal ==
    /\ fpc \in {"idle", "probing", "returned"}
    /\ \A k \in 1..Len(probes) : probes[k] = variants[k]
    /\ fpc = "probing" => head_status \notin {"200", "503"}
    /\ fpc = "returned" =>
           IF head_status \in {"200", "503"}
           THEN working_url = probes[Len(probes)]
           ELSE /\ working_url = fw_original_url
                /\ Len(probes) \in {0, Len(Probed(variants))}

\* a call has returned its third candidate, answered 503, after two
\* candidates that were not accepted
C21_Witness ==
    /\ fpc = "returned"
    /\ Len(probes) = 3
    /\ head_status = "503"
    /\ working_url = variants[3] /\ working_url # fw_original_url

\* C32: a cache entry is changed only by set, remove, clear, expiry and
\* eviction: the cache lookup of scrape_intelligent, hit or miss, leaves the
\* value of every entry that stays in the cache as it was stored.
C32_LookupLeavesStoredValue ==
    [][pc = "check_cache"
          => \A k \in Keys(cache) \cap Keys(cache') :
                 EntryOf(cache', k).data = EntryOf(cache, k).data]_vars

\* C33: every value held in the cache has status 'success'; a result whose
\* keyword extraction failed and a failed result are never stored.
C33_CachedValuesAreSuccess ==
    \A i \in 1..Len(cache) : cache[i].data.status = "success"

\* C36: a call with bypass_cache=True never reads the cache and always
\* performs a fresh fetch; when the last call that acquired a result was such a
\* call for the same URL, within the TTL, a lookup without bypass that hits
\* returns the entry that call stored, never an older one.
C36_BypassRefreshesWhatLaterCallsRead ==
    [][/\ (pc = "check_cache" /\ pc' # pc /\ req.bypass_cache)
            => (pc' = "fast" /\ cache' = cache /\ trace' = trace)
       /\ (/\ pc = "check_cache" /\ Returns
           /\ ~req.bypass_cache
           /\ lastOk # NoCall /\ lastOk.bypass
           /\ lastOk.url = req.url)
            => _get_url_hash(lastOk.key) = _get_url_hash(req.url)]_vars

\* C37: when scrape_intelligent ends failed, its error is the fixed text with
\* the failure reason of the fast layer and the failure reason of the rendered
\* layer, both non-empty, also after a 2xx fast response with insufficient
\* content.
C37_FailedErrorCarriesBothReasons ==
    (pc = "done" /\ ret.data.status = "failed") =>
        /\ ret.data.error = "All scraping methods failed. Basic HTTP: " \o result.error
                            \o ", Browser Pool: " \o browser_result.error
        /\ result.error # ""
        /\ browser_result.error # ""

\* C38: the failed_sites entry of a URL whose fallback did not succeed has a
\* non-empty suggestion, and when the fast fetch of the URL was refused with
\* HTTP 403 it is the WAF/firewall suggestion, whatever the rendered layer
\* reported.
C38_Http403GetsWafSuggestion ==
    (pc = "done" /\ ret.data.status # "success") =>
        LET e == FailedSiteData(req.url, ret.data) IN
        /\ e.suggestion # ""
        /\ (ret.data.status = "failed" /\ result.h_status = 403) =>
               e.suggestion = "Sito protetto da WAF/firewall - necessario accesso manuale o credenziali"

-----------------------------------------------------------------------------
(* Properties of stream_analysis_progress *)

\* the number of events of the given type yielded for the URL u
EventCount(type, u) ==
    Cardinality({i \in 1..Len(events) :
        /\ events[i].event = type
        /\ "url" \in DOMAIN events[i]
        /\ events[i].url = u})
UrlsOf(q) == {q[i].url : i \in 1..Len(q)}
Occurrences(q, u) == Cardinality({i \in 1..Len(q) : q[i].url = u})

\* C6: when the batch is over, every URL whose processing raised an
\* unexpected exception has produced exactly one failed event, every URL
\* processed successfully exactly one progress and one result event, there is
\* exactly one complete event, the last one, and every URL of the batch is
\* exactly once in its matches or in its failed_sites.
C6_RaisingUrlGivesOneFailedEvent ==
    bpc = "end" =>
        /\ \A u \in raised : EventCount("failed", u) = 1
        /\ \A u \in UrlsOf(matches) :
               EventCount("progress", u) = 1 /\ EventCount("result", u) = 1
        /\ Cardinality({i \in 1..Len(events) : events[i].event = "complete"}) = 1
        /\ LET c == events[Len(events)] IN
           /\ c.event = "complete"
           /\ \A u \in UrlSet :
                  Occurrences(c.matches, u) + Occurrences(c.failed_sites, u) = 1

\* wget scrapes, fallback fetches and classification calls in flight
WgetInFlight ==
    IF bpc = "wave1"
    THEN Cardinality({u \in UrlSet : wget_tasks[u].state \in {"running", "resolving"}})
    ELSE 0
FallbackInFlight == IF bpc = "wave2" /\ wpc = "fallback" THEN 1 ELSE 0
ClassifyInFlight == IF bpc = "wave2" /\ wpc = "classify" THEN 1 ELSE 0

\* C12: at no point of a batch are more wget scrapes in flight than
\* WgetScraper.max_concurrent, more than 5 fallback fetches, or more than 10
\* classification calls.
C12_FetchesInFlightBounded ==
    /\ WgetInFlight <= max_concurrent
    /\ FallbackInFlight <= 5
    /\ ClassifyInFlight <= 10

\* the processing coroutine of urls[j] has begun to run (it runs from the
\* moment the generator awaits it, line 428), and it has returned
ProcessingStarted(j) == bpc = "end" \/ (bpc = "wave2" /\ (j < idx \/ (j = idx /\ wpc # "enter")))
ProcessingDone(j) == bpc = "end" \/ (bpc = "wave2" /\ j < idx)

\* C13: the processing calls of wave 2 run concurrently: while the fallback
\* fetch of one URL is under way (slow, or waiting for its timeout), no URL that
\* follows it in input order is kept from starting its own processing.
C13_SlowFallbackDoesNotDelayOthers ==
    \A i \in 1..Len(urls) :
        (ProcessingStarted(i) /\ ~ProcessingDone(i) /\ wpc = "fallback")
            => \A j \in (i + 1)..Len(urls) : ProcessingStarted(j)

\* positions of the events of one type
EventsOfType(type) == {i \in 1..Len(events) : events[i].event = type}

\* C15: every run emits exactly one 'started' event, as its first event, and
\* exactly one 'complete' event, as its last event, after every progress and
\* result event of the URLs.
C15_OneStartedFirstOneCompleteLast ==
    /\ [](/\ events # <<>> => EventsOfType("started") = {1}
          /\ EventsOfType("complete") \subseteq {Len(events)}
          /\ EventsOfType("complete") # {} <=> bpc = "end")
    /\ <>(bpc = "end" /\ EventsOfType("complete") = {Len(events)})

\* a run has ended whose stream carries progress and result events of one URL
\* and records another URL as failed
C15_Witness ==
    /\ bpc = "end"
    /\ events[1].event = "started" /\ events[Len(events)].event = "complete"
    /\ EventsOfType("progress") # {} /\ EventsOfType("result") # {}
    /\ failed_sites # <<>>

\* C17: classify_competitor_with_ai is called once for every URL that was
\* fetched, with the text acquired by the layer that fetched it (wget, or
\* scrape_intelligent in the fallback), never with empty text when text was
\* acquired, and never for a URL whose fetch failed.
C17_ClassifierGetsAcquiredContent ==
    /\ \A k \in 1..Len(ai_calls) :
           /\ ai_calls[k].competitor_content = ai_calls[k].h_acquired
           /\ \A h \in 1..Len(ai_calls) :
                  ai_calls[h].competitor_url = ai_calls[k].competitor_url => h = k
    /\ bpc = "end" =>
           \A u \in UrlSet :
               \/ \E k \in 1..Len(ai_calls) : ai_calls[k].competitor_url = u
               \/ u \in UrlsOf(failed_sites)

\* C7: under fair scheduling a batch with a site that never answers
\* terminates: the complete event is eventually yielded, and it lists the URL
\* of that site among the failed sites.
C7_HungUrlFailsAndBatchCompletes ==
    <>(/\ bpc = "end"
       /\ events[Len(events)].event = "complete"
       /\ hung \subseteq UrlsOf(events[Len(events)].failed_sites))

\* a batch with a site that never answers has ended with that URL among the
\* failed sites, after its fallback ran into the timeout of wait_for
C7_Witness ==
    /\ bpc = "end"
    /\ hung # {}
    /\ \E i \in 1..Len(failed_sites) :
           /\ failed_sites[i].url \in hung
           /\ failed_sites[i].error = "Timeout dopo 30s"

\* C16: the percentage of a progress event is floor(100 x resolved / total),
\* where resolved is the number of URLs resolved so far; when the event of the
\* URL at position index is sent, index URLs have been resolved.
C16_PercentageIsFloorOfResolvedOverTotal ==
    _percentage # Unset => _percentage = (100 * index) \div total_urls

-----------------------------------------------------------------------------
(* Properties of ScrapingCache *)

IsCacheStep(op) == cacheOp'.op = op /\ cacheOp'.seq # cacheOp.seq

\* C9: when no set has overwritten a present entry, a set of a new URL into a
\* full cache removes exactly the least recently used entry (use = insertion
\* or latest get hit), stores the new one, and a get of the evicted URL
\* right after is a miss.
C9_EvictsLeastRecentlyUsed ==
    [][(/\ IsCacheStep("set")
        /\ ~overwritten
        /\ Len(cache) = MaxSize
        /\ _get_url_hash(cacheOp'.url) \notin Keys(cache))
       => (/\ Keys(cache') = (Keys(cache) \ {Head(useOrder)}) \cup {_get_url_hash(cacheOp'.url)}
           /\ Len(cache') = MaxSize
           /\ cacheOp'.evicted = Head(useOrder)
           /\ \A u \in Urls : _get_url_hash(u) = Head(useOrder)
                  => CacheGet(cache', u, now').outcome = "miss")]_vars

\* a set of a new URL has just evicted an entry from a full cache
C9_Witness ==
    /\ cacheOp.op = "set" /\ cacheOp.outcome = "evict" /\ ~overwritten
    /\ Len(cache) = MaxSize
    /\ cacheOp.evicted \notin Keys(cache)

\* C10: get returns a value only for a present entry of age <= ttl_seconds
\* (and then that entry's value); a get on an older entry returns None and
\* removes it; a key enters the store only through a set of its URL.
C10_GetHonoursTtl ==
    [][/\ IsCacheStep("get") =>
            LET k == _get_url_hash(cacheOp'.url) IN
            /\ cacheOp'.value # None =>
                    /\ k \in Keys(cache)
                    /\ now - EntryOf(cache, k).ts <= TtlSeconds
                    /\ cacheOp'.value = EntryOf(cache, k).data
            /\ (k \in Keys(cache) /\ now - EntryOf(cache, k).ts > TtlSeconds) =>
                    /\ cacheOp'.value = None
                    /\ k \notin Keys(cache')
       /\ \A u \in Urls :
            (_get_url_hash(u) \notin Keys(cache) /\ _get_url_hash(u) \in Keys(cache'))
                => (IsCacheStep("set") /\ cacheOp'.url = u)]_vars

\* a get has just found an entry older than ttl_seconds
C10_Witness == cacheOp.op = "get" /\ cacheOp.outcome = "expired"

\* C34: after any sequence of set, get, remove and clear operations the
\* number of stored entries never exceeds max_size.
C34_SizeAtMostMaxSize == Len(cache) <= MaxSize

\* a set into a full cache has evicted an entry and the cache is full again
C34_Witness ==
    /\ cacheOp.op = "set" /\ cacheOp.evicted # NoUrl
    /\ Len(cache) = MaxSize
    /\ _get_url_hash(cacheOp.url) \in Keys(cache)

\* C35: a set on a URL counts as a use: right after set(u, d) the entry for u
\* is the most recently used one, the last in the eviction order of the store.
C35_SetMakesMostRecentlyUsed ==
    [][IsCacheStep("set")
          => cache'[Len(cache')].key = _get_url_hash(cacheOp'.url)]_vars

-----------------------------------------------------------------------------
(* Properties of BrowserPool *)

\* C22: in every reachable state, whatever the interleaving of initialize,
\* get_session, recovery and cleanup (two callers that find the pool
\* uninitialized at the same time included), the pool holds at most pool_size
\* sessions.
C22_AtMostPoolSizeSessions == Len(sessions) <= pool_size

\* C23: get_session runs at most one recovery pass per call: after the pass it
\* returns a healthy session or None, and does not start another pass, also
\* when concurrent fetches mark sessions unhealthy during the recovery.
C23_OneRecoveryPassPerCall == \A c \in Callers : callers[c].passes <= 1

\* startup_event has returned and no request has used the pool yet
StartupOver ==
    /\ pool_calls = 1
    /\ \E c \in Callers : callers[c].op = "initialize" /\ callers[c].pc = "done"

C27_OneNavigationPerFetch ==
    \A c \in Callers : callers[c].pc \in {"goto", "content"} => callers[c].attempt = 0

\* the coroutine is inside _renew_session
Renewing(c) == callers[c].pc \in {"close_old", "renew_create"}

\* C28: pool changes are serialized: no two coroutines are renewing the same
\* session at the same time, and every browser launched by _renew_session is
\* in the pool unless it has been closed since.
C28_RenewalsSerialized ==
    /\ \A c, d \in Callers :
           (c # d /\ Renewing(c) /\ Renewing(d))
               => callers[c].unhealthy[callers[c].k] # callers[d].unhealthy[callers[d].k]
    /\ \A b \in 1..Len(browsers) :
           (browsers[b].by = "renew" /\ ~InPool(sessions, b)) => browsers[b].closes > 0

\* C29: every rendered fetch of _scrape_with_browser_pool that has failed with
\* a session (navigation error, 15 s timeout, insufficient content) has left
\* that session marked unhealthy.
C29_FailedFetchMarksSessionUnhealthy ==
    \A c \in Callers :
        (/\ callers[c].op = "render" /\ callers[c].pc = "done"
         /\ callers[c].session # 0
         /\ ~callers[c].ret.success)
            => ~browsers[callers[c].session].is_healthy

\* C30: no session of the pool ever has a request_count above
\* max_requests_per_session.
C30_RequestCountBounded ==
    \A j \in 1..Len(sessions) :
        browsers[sessions[j]].request_count <= max_requests_per_session

\* the coroutine is inside scrape_with_session
Fetching(c) == callers[c].pc \in {"new_page", "goto", "content"}

\* C31: scrape_with_session closes the page it opened on every path (success,
\* navigation exception, cancellation by the caller's timeout), and its steps
\* never close or remove a session: they leave the sessions of the pool and
\* the close() count of every browser unchanged.
C31_FetchClosesPageKeepsSession ==
    [][\A c \in Callers :
          /\ (Fetching(c) /\ callers'[c] # callers[c])
                 => /\ sessions' = sessions
                    /\ Len(browsers') = Len(browsers)
                    /\ \A b \in 1..Len(browsers) : browsers'[b].closes = browsers[b].closes
          /\ (Fetching(c) /\ ~Fetching(c)')
                 => /\ callers'[c].pc = "done"
                    /\ callers'[c].page = IF callers[c].page = "open" THEN "closed" ELSE "none"]_vars

\* a rendered fetch was cancelled by the 15 s timeout after it had opened its
\* page: the page is closed and the session is still in the pool
C31_Witness ==
    \E c \in Callers :
        /\ callers[c].op = "render" /\ callers[c].pc = "done"
        /\ callers[c].ret = BrowserPoolResult([kind |-> "timeout"])
        /\ callers[c].page = "closed"
        /\ InPool(sessions, callers[c].session)

-----------------------------------------------------------------------------
(* Properties of WgetScraper *)

\* C39: concurrent Wave 1 scrapes of different URLs of one batch never share a
\* working directory: a downloaded file is removed only by a step of the
\* scrape whose process downloaded it, so the cleanup of one scrape never
\* deletes the files of another scrape in flight.
C39_CleanupSparesOtherScrapes ==
    [][\A f \in tmp_mirror \ tmp_mirror' : scrapes'[f.by] # scrapes[f.by]]_vars

-----------------------------------------------------------------------------
(* Properties of classify_competitor_status *)

\* C25: classify_competitor_status(score) returns category DIRECT for every
\* score of 65 or more, POTENTIAL for every score from 50 up to 65, and
\* NON_COMPETITOR for every score below 50.
C25_Thresholds65And50 ==
    classification # None =>
        classification.category =
            IF score >= 65 THEN "DIRECT"
            ELSE IF score >= 50 THEN "POTENTIAL"
            ELSE "NON_COMPETITOR"

=============================================================================
